---- MODULE Spec2Model ----
(***************************************************************************)
(* The build pipeline of lite-blog (builder: build, buildPost,             *)
(* buildTagPages, buildPaginationPages; utils: needsRebuild, cleanDir,     *)
(* paginate, ...) as a state machine over the project directory:           *)
(* pages/*.md, templates/*.html, static/, the output tree public/ and the  *)
(* persisted cache .lite-blog-cache.json; and the development server       *)
(* (server: startDevServer, FileCache, sanitizePath, debouncedBuild,       *)
(* notifyReload) over the same output tree.                                *)
(***************************************************************************)
EXTENDS Integers, Sequences, FiniteSets, TLC

(* ------------------------------ bounds -------------------------------- *)
\* source edits (file saves, creations, deletions) and build passes together in
\* one behaviour
MaxOps == 3
\* the wall clock runs from 1 to MaxClock
MaxClock == 2
\* titles (the part of a file's text that an edit changes) are 1..MaxTitle
MaxTitle == 2
\* clock ticks that formatDate maps to one displayed day
TicksPerDay == 2

\* what reaches the dev server in one behaviour: file events, requests for
\* files, live-reload subscriptions and their closes, together
MaxInputs == 3
\* the debounce delay (setTimeout(..., 150)) in steps of the timer clock
DebounceTicks == 1
\* the capacity of the dev file cache (new FileCache(50)), scaled down
CacheCapacity == 2

\* the items handed to paginate are 0..MaxItems listed posts
MaxItems == 5
\* config.json sets postsPerPage to null or to a number in -1..MaxPerPage
MaxPerPage == 3
\* static/images holds 0..MaxImages images to optimize
MaxImages == 7
\* findRelatedPosts is handed MaxPosts ordinary posts and the special pages
MaxPosts == 5
\* a document holds 0..MaxHeadings headings h2..h6
MaxHeadings == 3

(* --------------------------- the input space -------------------------- *)
\* the markdown files under pages/, as slugs, in the order glob lists them
Slugs == <<"a", "b", "index">>
SlugSet == {Slugs[i] : i \in 1..Len(Slugs)}
\* the tags a front-matter may carry
TagOrder == <<"news", "News">>
Tags == {TagOrder[i] : i \in 1..Len(TagOrder)}
\* the files of templates/ that loadTemplates reads (name without .html)
TemplateNames == {"default", "post", "list", "tag"}
\* the output files under tags/ and page/ and the feeds
IndexFile == "index.html"
PostFile(slug) == slug \o ".html"
TagFile(tagSlug) == "tags/" \o tagSlug \o ".html"
PageFile(n) == "page/" \o ToString(n) \o ".html"
PostFiles == {PostFile(s) : s \in SlugSet}

NoFile ==
  [exists |-> FALSE, title |-> 0, date |-> 0, tags |-> {}, template |-> "", draft |-> FALSE]

VARIABLES
  \* ---- the project directory
  pages,        \* slug -> the markdown file pages/{slug}.md (NoFile when absent)
  templates,    \* template name -> the text of templates/{name}.html (0 when absent)
  staticFiles,  \* the files under static/
  out,          \* the output tree public/: file name -> content
  cacheFile,    \* .lite-blog-cache.json: [exists, map]
  clock,        \* the wall clock (Date.now / new Date())
  \* ---- one build pass (locals of build())
  pc,           \* where the pass stands
  origin,       \* who started it: "cli", "devInitial", "devRebuild"
  incremental,  \* options.incremental after defaulting
  cache,        \* the snapshot loaded at the start of the pass
  newCache,     \* the mapping built in this pass
  tpl,          \* the templates loaded by loadTemplates
  mdFiles,      \* the result of glob
  posts,        \* the parsed posts
  idx,          \* index of the next element of mdFiles / posts to handle
  hasNewPosts,
  \* ---- observation of the pass (not program state)
  written,      \* output files written so far by this pass
  decided,      \* slug -> the needsBuild decision taken in this pass
  out0,         \* the output tree when the pass began
  cache0,       \* the persisted cache when the pass began
  prev,         \* how the previous pass ended
  builtSrc,     \* pages as parsed by the last pass that completed
  ops,          \* edits made and passes started so far
  \* ---- the development server (locals of startDevServer)
  alive,        \* the process runs: the HTTP server listens, the watcher watches
  timers,       \* pending setTimeout timers: handle -> time since it was set
  buildTimeout, \* the handle debouncedBuild keeps (0: null)
  builds,       \* the rebuilds started by the timer callback: handle -> record
  clients,      \* the live-reload responses, in push order
  conn,         \* connection -> "idle", "open" or "gone"
  sent,         \* connection -> reload messages written to it
  fileCache,    \* FileCache.cache: entries in Map insertion order
  res,          \* the response to the last request
  clientEtag,   \* the ETag the browser last received
  events,       \* file events delivered so far
  bursts,       \* bursts of file events begun so far
  requests,     \* file requests handled so far
  \* ---- one call of a function of utils or images (its arguments and locals)
  pgCall,       \* paginate, called by buildPaginationPages
  relCall,      \* findRelatedPosts
  hdCall,       \* addHeadingIds
  imCall        \* processImages

devVars == <<alive, timers, buildTimeout, builds, clients, conn, sent, fileCache, res,
             clientEtag, events, bursts, requests>>
srcVars == <<pages, templates, staticFiles>>
passVars == <<pc, origin, incremental, cache, newCache, tpl, mdFiles, posts, idx, hasNewPosts>>
obsVars == <<written, decided, out0, cache0, prev, builtSrc>>
vars == <<pages, templates, staticFiles, out, cacheFile, clock,
          pc, origin, incremental, cache, newCache, tpl, mdFiles, posts, idx, hasNewPosts,
          written, decided, out0, cache0, prev, builtSrc, ops,
          alive, timers, buildTimeout, builds, clients, conn, sent, fileCache, res,
          clientEtag, events, bursts, requests,
          pgCall, relCall, hdCall, imCall>>
utilVars == <<pgCall, relCall, hdCall, imCall>>

Min(a, b) == IF a < b THEN a ELSE b
EmptyMap == [x \in {} |-> 0]
\* f with key k set to v (an object property assignment, a file write)
Put(f, k, v) == [x \in DOMAIN f \cup {k} |-> IF x = k THEN v ELSE f[x]]

(* ------------------------------ utils --------------------------------- *)
\* crypto md5 of a file's bytes: equal files, equal digests
Md5(file) == <<"md5", file.title, file.date, file.tags, file.template, file.draft>>
NullHash == <<"null">>
Undefined == <<"undefined">>

getFileHash(slug) == IF ~pages[slug].exists THEN NullHash ELSE Md5(pages[slug])

loadBuildCache == IF cacheFile.exists THEN cacheFile.map ELSE EmptyMap

Lookup(c, slug) == IF slug \in DOMAIN c THEN c[slug] ELSE Undefined

needsRebuild_known(slug, c) == slug \in DOMAIN c /\ getFileHash(slug) # c[slug]
needsRebuild(slug, c) == getFileHash(slug) # Lookup(c, slug)

formatDate(d) == <<"day", d \div TicksPerDay>>

slugify(tag) == IF tag = "News" THEN "news" ELSE tag

\* slug.startsWith('tags/')
StartsWithTags(slug) == slug \in {"tags/index"}

\* Array.prototype.sort with (a, b) => b.key - a.key: stable, descending
Insert_beforeTies(sorted, x) ==
  LET n == Cardinality({i \in 1..Len(sorted) : sorted[i].key > x.key})
  IN SubSeq(sorted, 1, n) \o <<x>> \o SubSeq(sorted, n + 1, Len(sorted))
Insert(sorted, x) ==
  LET n == Cardinality({i \in 1..Len(sorted) : sorted[i].key >= x.key})
  IN SubSeq(sorted, 1, n) \o <<x>> \o SubSeq(sorted, n + 1, Len(sorted))

RECURSIVE SortDesc(_)
SortDesc(s) ==
  IF s = <<>> THEN <<>> ELSE Insert(SortDesc(SubSeq(s, 1, Len(s) - 1)), s[Len(s)])

Vals(s) == [i \in 1..Len(s) |-> s[i].val]
ByDateDesc(ps) == Vals(SortDesc([i \in 1..Len(ps) |-> [key |-> ps[i].date, val |-> ps[i]]]))

Ceil(n, d) == (n + d - 1) \div d

paginate(items, perPage) ==
  LET totalPages == Ceil(Len(items), perPage)
  IN [i \in 1..totalPages |->
        [items |-> SubSeq(items, (i - 1) * perPage + 1, Min(i * perPage, Len(items))),
         currentPage |-> i,
         totalPages |-> totalPages,
         hasNext |-> i < totalPages,
         hasPrev |-> i > 1,
         nextPage |-> IF i < totalPages THEN i + 1 ELSE 0,
         prevPage |-> IF i > 1 THEN i - 1 ELSE 0]]

findRelatedPosts(currentPost, allPosts, limit) ==
  IF currentPost.tags = {} THEN <<>>
  ELSE LET cand == SelectSeq(allPosts, LAMBDA p :
                     /\ p.slug # currentPost.slug /\ ~p.draft
                     /\ p.slug # "index" /\ p.slug # "about" /\ ~StartsWithTags(p.slug))
           scored == [i \in 1..Len(cand) |->
                        [key |-> Cardinality(cand[i].tags \cap currentPost.tags),
                         val |-> cand[i]]]
           sorted == SortDesc(SelectSeq(scored, LAMBDA it : it.key > 0))
       IN Vals(SubSeq(sorted, 1, Min(limit, Len(sorted))))


(* ----------------------------- builder -------------------------------- *)
\* defaultConfig.postsPerPage
postsPerPage == 10

\* the placeholders of the scaffolded templates (defaultTemplates)
Placeholders(name) ==
  CASE name = "list" -> {"title", "posts", "pagination"}
    [] name = "tag" -> {"title", "tagsList", "posts"}
    [] OTHER -> {"title", "date", "dateISO", "tags", "relatedPosts"}
DataKeys == {"title", "date", "dateISO", "tags", "relatedPosts", "posts", "pagination", "tagsList"}

\* only the names present in the template are substituted
renderTemplate(name, text, data) ==
  [k \in DataKeys \cup {"tpl", "text"} |->
     IF k = "tpl" THEN <<name>>
     ELSE IF k = "text" THEN <<text>>
     ELSE IF k \in Placeholders(name) /\ k \in DOMAIN data THEN data[k] ELSE <<>>]

\* the tags of a post, in front-matter order
TagSeq(tagset) == SelectSeq(TagOrder, LAMBDA t : t \in tagset)

parseMarkdownFile(slug, now) ==
  LET file == pages[slug]
  IN [slug |-> slug,
      title |-> file.title,
      date |-> IF file.date = 0 THEN now ELSE file.date,
      tags |-> file.tags,
      template |-> IF file.template = "" THEN "post" ELSE file.template,
      draft |-> file.draft]

Listed(p) == ~p.draft /\ p.slug # "index" /\ p.slug # "about" /\ ~StartsWithTags(p.slug)

ListItem(p) == <<p.slug, ToString(p.title), formatDate(p.date)>>
Items(ps) == [i \in 1..Len(ps) |-> ListItem(ps[i])]

generatePostsListHtml(allPosts) ==
  LET sortedPosts == ByDateDesc(SelectSeq(allPosts, Listed))
  IN IF sortedPosts = <<>> THEN << <<"No posts yet.">> >> ELSE Items(sortedPosts)

\* the tags of the non-draft posts in first-seen order
RECURSIVE Concat(_)
Concat(ss) == IF ss = <<>> THEN <<>> ELSE ss[1] \o Concat(Tail(ss))
RECURSIVE Dedupe(_)
Dedupe(s) ==
  IF s = <<>> THEN <<>>
  ELSE LET front == Dedupe(SubSeq(s, 1, Len(s) - 1))
           x == s[Len(s)]
       IN IF \E i \in 1..Len(front) : front[i] = x THEN front ELSE Append(front, x)
SeenTags(allPosts) ==
  LET live == SelectSeq(allPosts, LAMBDA p : ~p.draft)
  IN Dedupe(Concat([i \in 1..Len(live) |-> TagSeq(live[i].tags)]))

generateTagsListHtml(allPosts) ==
  LET live == SelectSeq(allPosts, LAMBDA p : ~p.draft)
      seen == SeenTags(allPosts)
      counted == [i \in 1..Len(seen) |->
                    [key |-> Cardinality({j \in 1..Len(live) : seen[i] \in live[j].tags}),
                     val |-> seen[i]]]
      sortedTags == SortDesc(counted)
  IN [i \in 1..Len(sortedTags) |->
        <<slugify(sortedTags[i].val), sortedTags[i].val, sortedTags[i].key>>]

\* templates[post.template] || templates['post'] || templates['default']
PostTemplate_defaultFirst(post, t) ==
  IF t[post.template] # 0 THEN post.template
  ELSE IF t["default"] # 0 THEN "default"
  ELSE IF t["post"] # 0 THEN "post" ELSE ""
PostTemplate(post, t) ==
  IF t[post.template] # 0 THEN post.template
  ELSE IF t["post"] # 0 THEN "post"
  ELSE IF t["default"] # 0 THEN "default" ELSE ""

NoHtml == [tpl |-> <<>>]

buildPost(post, t, allPosts) ==
  LET template == PostTemplate(post, t)
      related == findRelatedPosts(post, allPosts, 3)
      isListTemplate == post.template = "list" \/ post.slug = "index"
      isTagTemplate == post.template = "tag" \/ StartsWithTags(post.slug)
      tagSeq == TagSeq(post.tags)
  IN IF template = "" THEN NoHtml
     ELSE renderTemplate(template, t[template],
            [title |-> <<ToString(post.title)>>,
             date |-> formatDate(post.date),
             dateISO |-> <<post.date>>,
             tags |-> [i \in 1..Len(tagSeq) |-> <<slugify(tagSeq[i]), tagSeq[i]>>],
             relatedPosts |-> [i \in 1..Len(related) |-> <<related[i].slug, ToString(related[i].title)>>],
             posts |-> IF isListTemplate THEN generatePostsListHtml(allPosts) ELSE <<>>,
             pagination |-> <<>>,
             tagsList |-> IF isTagTemplate THEN generateTagsListHtml(allPosts) ELSE <<>>])

\* a sequence of <<file, content>> writes applied in order (fs.writeFileSync)
RECURSIVE WriteAll(_, _)
WriteAll(tree, writes) ==
  IF writes = <<>> THEN tree
  ELSE WriteAll(Put(tree, writes[1][1], writes[1][2]), Tail(writes))
Targets(writes) == {writes[i][1] : i \in 1..Len(writes)}

\* the writes of buildTagPages, one per tag in first-seen order
buildTagPages(allPosts, t) ==
  LET live == SelectSeq(allPosts, LAMBDA p : ~p.draft)
      seen == SeenTags(allPosts)
      tagTemplate == IF t["tag"] # 0 THEN "tag" ELSE IF t["default"] # 0 THEN "default" ELSE ""
      page(tag) ==
        renderTemplate(tagTemplate, t[tagTemplate],
          [title |-> <<"Tag: ", tag>>,
           posts |-> Items(ByDateDesc(SelectSeq(live, LAMBDA p : tag \in p.tags))),
           tagsList |-> <<>>])
  IN IF tagTemplate = "" THEN <<>>
     ELSE [i \in 1..Len(seen) |-> <<TagFile(slugify(seen[i])), page(seen[i])>>]

\* the writes of buildPaginationPages against the output tree `tree`
buildPaginationPages(allPosts, t, tree) ==
  LET sortedPosts == ByDateDesc(SelectSeq(allPosts, Listed))
      pgs == paginate(sortedPosts, postsPerPage)
      listTemplate == IF t["list"] # 0 THEN "list" ELSE IF t["default"] # 0 THEN "default" ELSE ""
      html(pg) ==
        renderTemplate(listTemplate, t[listTemplate],
          [title |-> IF pg.currentPage = 1 THEN <<"site">> ELSE <<"Page ", ToString(pg.currentPage)>>,
           posts |-> Items(pg.items),
           pagination |-> <<pg.prevPage, pg.currentPage, pg.totalPages, pg.nextPage>>])
      one(pg) ==
        (IF pg.currentPage = 1 /\ IndexFile \notin DOMAIN tree
           THEN << <<IndexFile, html(pg)>> >> ELSE <<>>)
        \o << <<PageFile(pg.currentPage), html(pg)>> >>
  IN IF listTemplate = "" THEN <<>>
     ELSE Concat([i \in 1..Len(pgs) |-> one(pgs[i])])

generateRSS(allPosts, now) ==
  LET sortedPosts == ByDateDesc(SelectSeq(allPosts, Listed))
      top == SubSeq(sortedPosts, 1, Min(20, Len(sortedPosts)))
  IN [lastBuildDate |-> now,
      items |-> [i \in 1..Len(top) |-> <<top[i].slug, ToString(top[i].title), top[i].date>>]]

generateSitemap(allPosts) ==
  LET live == SelectSeq(allPosts, LAMBDA p :
                ~p.draft /\ p.slug # "index" /\ ~StartsWithTags(p.slug))
  IN [urls |-> [i \in 1..Len(live) |-> <<live[i].slug, formatDate(live[i].date)>>]]


\* ensureDir(dirPath): creates the directory when missing, touches no file
ensureDir_wipe(tree) == EmptyMap
ensureDir(tree) == tree

\* fs.rmSync(dirPath, {recursive, force}) then ensureDir: an empty directory
cleanDir_keep(tree) == tree
cleanDir(tree) == EmptyMap

\* fs.writeFileSync(cacheFile, JSON.stringify(cache)): the file holds `c` alone
saveBuildCache_merge(file, c) ==
  [exists |-> TRUE,
   map |-> [x \in DOMAIN c \cup DOMAIN file.map |-> IF x \in DOMAIN c THEN c[x] ELSE file.map[x]]]
saveBuildCache(file, c) == [exists |-> TRUE, map |-> c]

\* copyDir(staticDir, outputDir): every file of static/ copied verbatim
copyDir(files) ==
  LET names == CHOOSE q \in [1..Cardinality(files) -> files] :
                 \A i, j \in 1..Cardinality(files) : i # j => q[i] # q[j]
  IN [i \in 1..Cardinality(files) |-> <<names[i], [static |-> names[i]]>>]

\* const { incremental = true } = options
Incremental(options) == IF options = "none" THEN TRUE ELSE options = "true"


(* --------------------------- server: helpers -------------------------- *)
\* A URL or a path is a sequence of characters; a percent-escape (%2e) and a
\* file-name stem (index) stand as one element each.
Max(S) == CHOOSE x \in S : \A y \in S : y <= x
StartsWith(s, p) == Len(s) >= Len(p) /\ SubSeq(s, 1, Len(p)) = p
includes(s, pat) ==
  \E i \in 1..(Len(s) - Len(pat) + 1) : SubSeq(s, i, i + Len(pat) - 1) = pat

\* path.join(projectDir, 'public')
outputDir == <<"/", "proj", "/", "public">>
PublicFile(stem, ext) == outputDir \o <<"/", stem, ".", ext>>
IndexPath == PublicFile("index", "html")
APath == PublicFile("a", "html")
StylePath == PublicFile("style", "css")
NotFoundPath == PublicFile("404", "html")

\* the request targets a browser or an attacker sends
LiveReloadUrl == <<"/", "__live-reload">>
Urls ==
  { <<"/">>, <<"/", "a">>, <<"/", "a", ".", "html">>, <<"/", "style", ".", "css">>,
    <<"/", "404">>, <<"/", "x">>,
    <<"/", ".", ".", "/", "a">>, <<"/", "%2e", "%2e", "/", "a">>,
    <<"/", ".", ".", "/", "public", "2", "/", "a">>,
    <<"/", "/", "a">>, <<"/", "a", "%2f", "%2f", "a">>,
    <<"/", "\\", "a">>, <<"/", "%5c", "a">>, <<"/", "%zz">>, <<"/", "%2e", "/", "a">> }

\* decodeURIComponent: the escapes decoded, URIError on a malformed one
URIError == <<"URIError">>
Decode(ch) ==
  CASE ch = "%2e" -> "." [] ch = "%2f" -> "/" [] ch = "%5c" -> "\\" [] OTHER -> ch
decodeURIComponent(u) ==
  IF \E i \in 1..Len(u) : u[i] = "%zz" THEN URIError
  ELSE [i \in 1..Len(u) |-> Decode(u[i])]

\* path.extname (posix): from the last dot of the last segment, '' when there
\* is none, when it is the segment's first character or when the segment is '..'
extname(p) ==
  LET ends == {k \in 1..Len(p) : p[k] # "/"}
      end == IF ends = {} THEN 0 ELSE Max(ends)
      slashes == {i \in 1..end : p[i] = "/"}
      startPart == IF slashes = {} THEN 1 ELSE Max(slashes) + 1
      base == SubSeq(p, startPart, end)
      dots == {i \in 1..Len(base) : base[i] = "."}
  IN IF dots = {} \/ base = <<".", ".">> THEN <<>>
     ELSE IF Max(dots) = 1 THEN <<>>
     ELSE SubSeq(base, Max(dots), Len(base))

\* path.join / path.resolve of an absolute path: segments split at '/', empty
\* and '.' segments dropped, '..' stepping up
RECURSIVE SplitPath(_, _, _)
SplitPath(p, cur, acc) ==
  IF p = <<>> THEN (IF cur = <<>> THEN acc ELSE Append(acc, cur))
  ELSE IF Head(p) = "/"
         THEN SplitPath(Tail(p), <<>>, IF cur = <<>> THEN acc ELSE Append(acc, cur))
         ELSE SplitPath(Tail(p), Append(cur, Head(p)), acc)
RECURSIVE Normalize(_, _)
Normalize(segs, acc) ==
  IF segs = <<>> THEN acc
  ELSE IF Head(segs) = <<".">> THEN Normalize(Tail(segs), acc)
  ELSE IF Head(segs) = <<".", ".">>
         THEN Normalize(Tail(segs), IF acc = <<>> THEN acc ELSE SubSeq(acc, 1, Len(acc) - 1))
         ELSE Normalize(Tail(segs), Append(acc, Head(segs)))
RECURSIVE JoinPath(_)
JoinPath(segs) == IF segs = <<>> THEN <<>> ELSE <<"/">> \o Head(segs) \o JoinPath(Tail(segs))
resolve(p) ==
  LET r == JoinPath(Normalize(SplitPath(p, <<>>, <<>>), <<>>))
  IN IF r = <<>> THEN <<"/">> ELSE r

\* sanitizePath returns null or the resolved path
Null == <<>>
Blocked_dotsOnly(decoded) == includes(decoded, <<".", ".">>)
Blocked(decoded) ==
  \/ includes(decoded, <<".", ".">>)
  \/ includes(decoded, <<"/", "/">>)
  \/ includes(decoded, <<"\\">>)
sanitizePath(urlPath, dir) ==
  LET decoded == decodeURIComponent(urlPath)
      realPath == resolve(dir \o <<"/">> \o decoded)
  IN IF decoded = URIError THEN Null
     ELSE IF Blocked(decoded) THEN Null
     ELSE IF ~StartsWith(realPath, resolve(dir)) THEN Null
     ELSE realPath

securityHeaders_three ==
  [h \in {"X-Content-Type-Options", "X-Frame-Options", "X-XSS-Protection"} |->
     CASE h = "X-Content-Type-Options" -> "nosniff"
       [] h = "X-Frame-Options" -> "SAMEORIGIN"
       [] OTHER -> "1; mode=block"]
securityHeaders ==
  [h \in {"X-Content-Type-Options", "X-Frame-Options", "X-XSS-Protection", "Referrer-Policy"} |->
     CASE h = "X-Content-Type-Options" -> "nosniff"
       [] h = "X-Frame-Options" -> "SAMEORIGIN"
       [] h = "X-XSS-Protection" -> "1; mode=block"
       [] OTHER -> "strict-origin-when-cross-origin"]

\* getCacheHeaders(contentType, true)
getCacheHeaders == [h \in {"Cache-Control"} |-> "no-cache, no-store, must-revalidate"]

\* { ...a, ...b }: the properties of b win
Spread(a, b) == [h \in DOMAIN a \cup DOMAIN b |-> IF h \in DOMAIN b THEN b[h] ELSE a[h]]
Header(name, value) == [h \in {name} |-> value]

\* mime.lookup(filePath) || 'application/octet-stream'
ContentType(filePath) ==
  IF extname(filePath) = <<".", "html">> THEN "text/html"
  ELSE IF extname(filePath) = <<".", "css">> THEN "text/css"
  ELSE "application/octet-stream"

\* crypto md5 of the content
Etag(content) == <<"md5", content>>
NoEtag == <<>>

(* ----------------------------- FileCache ------------------------------ *)
NoItem == [key |-> Null]
Find(c, key) == {i \in 1..Len(c) : c[i].key = key}
Delete(c, key) == SelectSeq(c, LAMBDA e : e.key # key)

FileCache_get_noStat(c, key) ==
  LET hit == Find(c, key)
  IN IF hit = {} THEN [cache |-> c, item |-> NoItem, stat |-> {}]
     ELSE [cache |-> c, item |-> c[CHOOSE i \in hit : TRUE], stat |-> {}]
\* get(key): the item, or null after deleting an entry whose file is gone or
\* has a later modification time; `stat` lists the paths it examined
FileCache_get(c, key) ==
  LET hit == Find(c, key)
      item == c[CHOOSE i \in hit : TRUE]
  IN IF hit = {} THEN [cache |-> c, item |-> NoItem, stat |-> {}]
     ELSE IF key \notin DOMAIN out THEN [cache |-> Delete(c, key), item |-> NoItem, stat |-> {key}]
     ELSE IF out[key].mtimeMs > item.mtime
            THEN [cache |-> Delete(c, key), item |-> NoItem, stat |-> {key}]
            ELSE [cache |-> c, item |-> item, stat |-> {key}]

\* set(key, content, mtime): the Map's first key deleted at capacity, then
\* Map.set (an existing key keeps its place); `at` numbers the insertion
Evict_last(c, maxSize) == IF Len(c) >= maxSize THEN SubSeq(c, 1, Len(c) - 1) ELSE c
Evict(c, maxSize) == IF Len(c) >= maxSize THEN Tail(c) ELSE c
FileCache_set(c, maxSize, key, content, mtime, at) ==
  LET kept == Evict(c, maxSize)
      item == [key |-> key, content |-> content, mtime |-> mtime,
               etag |-> Etag(content), at |-> at]
  IN IF Find(kept, key) # {}
       THEN [i \in 1..Len(kept) |-> IF kept[i].key = key THEN item ELSE kept[i]]
       ELSE Append(kept, item)

FileCache_clear(c) == <<>>

(* --------------------------- server: state ---------------------------- *)
Conns == {"c1", "c2"}
NoResponse == [status |-> 0]
\* the process is not running
ServerDown ==
  /\ alive = FALSE
  /\ timers = EmptyMap /\ buildTimeout = 0 /\ builds = EmptyMap
  /\ clients = <<>> /\ conn = [c \in Conns |-> "idle"] /\ sent = [c \in Conns |-> 0]
  /\ fileCache = <<>> /\ res = NoResponse /\ clientEtag = NoEtag
  /\ events = 0 /\ bursts = 0 /\ requests = 0

\* no function of utils or images is being called on its own
NoCall == [pc |-> "none"]
UtilsIdle == pgCall = NoCall /\ relCall = NoCall /\ hdCall = NoCall /\ imCall = NoCall

(* ------------------------------- Init --------------------------------- *)
PostA == [exists |-> TRUE, title |-> 1, date |-> 1, tags |-> {"news"},
          template |-> "post", draft |-> FALSE]
PostB == [exists |-> TRUE, title |-> 1, date |-> 0, tags |-> {"news", "News"},
          template |-> "post", draft |-> FALSE]
IndexPage == [exists |-> TRUE, title |-> 1, date |-> 0, tags |-> {},
              template |-> "list", draft |-> FALSE]
NoPass == [status |-> "none", incremental |-> FALSE, written |-> {}]

Init ==
  /\ \E ix \in {NoFile, IndexPage} :
       pages = [s \in SlugSet |-> CASE s = "a" -> PostA [] s = "b" -> PostB [] OTHER -> ix]
  /\ templates = [n \in TemplateNames \cup {"404"} |-> 1]
  /\ staticFiles = {"css/style.css"}
  /\ out = EmptyMap
  /\ cacheFile = [exists |-> FALSE, map |-> EmptyMap]
  /\ clock = 1
  /\ pc = "idle" /\ origin = "" /\ incremental = FALSE
  /\ cache = EmptyMap /\ newCache = EmptyMap
  /\ tpl = [n \in TemplateNames \cup {"404"} |-> 0]
  /\ mdFiles = <<>> /\ posts = <<>> /\ idx = 0 /\ hasNewPosts = FALSE
  /\ written = {} /\ decided = EmptyMap /\ out0 = EmptyMap
  /\ cache0 = [exists |-> FALSE, map |-> EmptyMap]
  /\ prev = NoPass
  /\ builtSrc = [s \in SlugSet |-> NoFile]
  /\ ops = 0
  /\ ServerDown
  /\ UtilsIdle

(* ------------------------- edits of the sources ----------------------- *)
\* the files an editor save can turn `file` into: the text, the draft flag or
\* one tag changed (a front-matter date, 0 when absent, stays as first written)
Variants(file) ==
  {[file EXCEPT !.title = (file.title % MaxTitle) + 1],
   [file EXCEPT !.draft = ~file.draft]}
  \cup {[file EXCEPT !.tags = (file.tags \ {t}) \cup ({t} \ file.tags)] : t \in Tags}

SavePost(s) ==
  /\ pc = "idle" /\ ops < MaxOps
  /\ pages[s].exists
  /\ \E f \in Variants(pages[s]) : pages' = [pages EXCEPT ![s] = f]
  /\ ops' = ops + 1
  /\ UNCHANGED <<devVars, utilVars, templates, staticFiles, out, cacheFile, clock, passVars, obsVars>>

CreatePost(s) ==
  /\ pc = "idle" /\ ops < MaxOps
  /\ ~pages[s].exists
  /\ pages' = [pages EXCEPT ![s] = IF s = "index" THEN IndexPage ELSE PostA]
  /\ ops' = ops + 1
  /\ UNCHANGED <<devVars, utilVars, templates, staticFiles, out, cacheFile, clock, passVars, obsVars>>

DeletePost(s) ==
  /\ pc = "idle" /\ ops < MaxOps
  /\ pages[s].exists
  /\ pages' = [pages EXCEPT ![s] = NoFile]
  /\ ops' = ops + 1
  /\ UNCHANGED <<devVars, utilVars, templates, staticFiles, out, cacheFile, clock, passVars, obsVars>>

\* time passes between two passes
Tick ==
  /\ pc = "idle" /\ clock < MaxClock
  /\ clock' = clock + 1
  /\ UNCHANGED <<devVars, utilVars, srcVars, out, cacheFile, passVars, obsVars, ops>>

(* ------------------------------ build() ------------------------------- *)
Running == {"clean", "glob", "parse", "build", "index", "tags", "page", "feeds", "static", "save"}

\* lines 759-777: options defaulting, loadConfig, loadBuildCache
Begin(who, options) ==
  /\ pc = "idle" /\ ops < MaxOps
  /\ ops' = ops + 1
  /\ origin' = who
  /\ incremental' = Incremental(options)
  /\ cache' = IF Incremental(options) THEN loadBuildCache ELSE EmptyMap
  /\ newCache' = EmptyMap
  /\ posts' = <<>> /\ mdFiles' = <<>> /\ idx' = 0 /\ hasNewPosts' = FALSE
  /\ written' = {} /\ decided' = EmptyMap
  /\ out0' = out /\ cache0' = cacheFile
  /\ pc' = "clean"
  /\ UNCHANGED <<devVars, utilVars, srcVars, out, cacheFile, clock, tpl, prev, builtSrc>>

\* bin: program.command('build') calls build(projectDir)
CliBuild == Begin("cli", "none")
\* server: await buildFn(projectDir, { incremental: false })
DevInitialBuild == Begin("devInitial", "false")
\* server: debouncedBuild calls buildFn(projectDir, { incremental: true })
DevRebuild == Begin("devRebuild", "true")

\* lines 779-788: cleanDir or ensureDir, loadTemplates
Clean ==
  /\ pc = "clean"
  /\ out' = IF ~incremental THEN cleanDir(out) ELSE ensureDir(out)
  /\ tpl' = templates
  /\ pc' = "glob"
  /\ UNCHANGED <<devVars, utilVars, srcVars, cacheFile, clock, origin, incremental, cache, newCache,
                 mdFiles, posts, idx, hasNewPosts, obsVars, ops>>

\* lines 790-792: await glob('**/*.md')
Glob ==
  /\ pc = "glob"
  /\ mdFiles' = SelectSeq(Slugs, LAMBDA s : pages[s].exists)
  /\ idx' = 1
  /\ pc' = IF mdFiles' = <<>> THEN "index" ELSE "parse"
  /\ UNCHANGED <<devVars, utilVars, srcVars, out, cacheFile, clock, origin, incremental, cache, newCache,
                 tpl, posts, hasNewPosts, obsVars, ops>>

\* lines 796-801: one iteration of the parse loop
Parse ==
  /\ pc = "parse"
  /\ pages[mdFiles[idx]].exists
  /\ posts' = Append(posts, parseMarkdownFile(mdFiles[idx], clock))
  /\ newCache' = Put(newCache, mdFiles[idx], getFileHash(mdFiles[idx]))
  /\ IF idx = Len(mdFiles) THEN pc' = "build" /\ idx' = 1
                           ELSE pc' = pc /\ idx' = idx + 1
  /\ UNCHANGED <<devVars, utilVars, srcVars, out, cacheFile, clock, origin, incremental, cache,
                 tpl, mdFiles, hasNewPosts, obsVars, ops>>

\* line 814
needsBuild_always(post) == TRUE
needsBuild(post) == ~incremental \/ needsRebuild(post.slug, cache)

\* lines 807-827: one iteration of the build loop
BuildStep ==
  /\ pc = "build"
  /\ LET post == posts[idx]
         html == buildPost(post, tpl, posts)
         doWrite == ~post.draft /\ needsBuild(post) /\ html # NoHtml
     IN /\ decided' = IF post.draft THEN decided ELSE Put(decided, post.slug, needsBuild(post))
        /\ hasNewPosts' = (hasNewPosts \/ (~post.draft /\ needsBuild(post)))
        /\ out' = IF doWrite THEN Put(out, PostFile(post.slug), html) ELSE out
        /\ written' = IF doWrite THEN written \cup {PostFile(post.slug)} ELSE written
  /\ IF idx = Len(posts) THEN pc' = "index" /\ idx' = 0
                         ELSE pc' = pc /\ idx' = idx + 1
  /\ UNCHANGED <<devVars, utilVars, srcVars, cacheFile, clock, origin, incremental, cache, newCache,
                 tpl, mdFiles, posts, out0, cache0, prev, builtSrc, ops>>

\* lines 830-840: posts.find(p => p.slug === 'index') and its rebuild
RebuildIndex ==
  /\ pc = "index"
  /\ LET found == SelectSeq(posts, LAMBDA p : p.slug = "index")
         html == buildPost(found[1], tpl, posts)
         doWrite == (hasNewPosts \/ ~incremental) /\ found # <<>> /\ html # NoHtml
     IN /\ out' = IF doWrite THEN Put(out, IndexFile, html) ELSE out
        /\ written' = IF doWrite THEN written \cup {IndexFile} ELSE written
  /\ pc' = "tags"
  /\ UNCHANGED <<devVars, utilVars, srcVars, cacheFile, clock, origin, incremental, cache, newCache,
                 tpl, mdFiles, posts, idx, hasNewPosts, decided, out0, cache0, prev,
                 builtSrc, ops>>

\* the remaining steps write a list of files and move on
WriteStep(at, writes, to) ==
  /\ pc = at
  /\ out' = WriteAll(out, writes)
  /\ written' = written \cup Targets(writes)
  /\ pc' = to
  /\ UNCHANGED <<devVars, utilVars, srcVars, cacheFile, clock, origin, incremental, cache, newCache,
                 tpl, mdFiles, posts, idx, hasNewPosts, decided, out0, cache0, prev,
                 builtSrc, ops>>

\* line 843
TagPages == WriteStep("tags", buildTagPages(posts, tpl), "page")
\* line 846
Pagination == WriteStep("page", buildPaginationPages(posts, tpl, out), "feeds")
\* lines 849-856
Feeds ==
  WriteStep("feeds", << <<"rss.xml", generateRSS(posts, clock)>>,
                        <<"sitemap.xml", generateSitemap(posts)>> >>, "static")
\* lines 859-869: static files, then templates/404.html
CopyStatic ==
  WriteStep("static",
    (IF staticFiles # {} THEN copyDir(staticFiles) ELSE <<>>)
    \o (IF templates["404"] # 0 THEN << <<"404.html", [static |-> "templates/404.html"]>> >>
                            ELSE <<>>),
    "save")

\* line 872: saveBuildCache(cacheFile, newCache)
SaveCache ==
  /\ pc = "save"
  /\ cacheFile' = saveBuildCache(cacheFile, newCache)
  /\ pc' = "done"
  /\ UNCHANGED <<devVars, utilVars, srcVars, out, clock, origin, incremental, cache, newCache,
                 tpl, mdFiles, posts, idx, hasNewPosts, obsVars, ops>>

\* an I/O error thrown by the step the pass was about to take: build() rejects
Fail ==
  /\ pc \in Running
  /\ pc' = "failed"
  /\ UNCHANGED <<devVars, utilVars, srcVars, out, cacheFile, clock, origin, incremental, cache, newCache,
                 tpl, mdFiles, posts, idx, hasNewPosts, obsVars, ops>>

\* build() has returned or thrown: its locals are gone
Return ==
  /\ pc \in {"done", "failed"}
  /\ prev' = [status |-> pc, incremental |-> incremental, written |-> written]
  /\ builtSrc' = IF pc = "done" THEN pages ELSE builtSrc
  /\ pc' = "idle" /\ origin' = "" /\ incremental' = FALSE
  /\ cache' = EmptyMap /\ newCache' = EmptyMap
  /\ tpl' = [n \in TemplateNames \cup {"404"} |-> 0]
  /\ mdFiles' = <<>> /\ posts' = <<>> /\ idx' = 0 /\ hasNewPosts' = FALSE
  /\ written' = {} /\ decided' = EmptyMap
  /\ out0' = EmptyMap /\ cache0' = [exists |-> FALSE, map |-> EmptyMap]
  /\ UNCHANGED <<devVars, utilVars, srcVars, out, cacheFile, clock, ops>>

Next ==
  \/ \E s \in SlugSet : SavePost(s)
  \/ \E s \in SlugSet : CreatePost(s)
  \/ \E s \in SlugSet : DeletePost(s)
  \/ Tick
  \/ CliBuild
  \/ DevInitialBuild
  \/ DevRebuild
  \/ Clean
  \/ Glob
  \/ Parse
  \/ BuildStep
  \/ RebuildIndex
  \/ TagPages
  \/ Pagination
  \/ Feeds
  \/ CopyStatic
  \/ SaveCache
  \/ Fail
  \/ Return

Spec == Init /\ [][Next]_vars

(* ------------------- a site with templates removed -------------------- *)
\* pages/b.md as the page that lists the tags (front-matter template: tag)
TagsPage == [exists |-> TRUE, title |-> 1, date |-> 1, tags |-> {},
             template |-> "tag", draft |-> FALSE]
\* what templates/ holds after the user has removed some of the scaffolded files
TemplateSets ==
  { {"list", "tag", "404"},
    {"default", "post", "list", "404"},
    {"default", "list", "404"},
    {"list", "404"} }

\* the project of Init with b.md the tags page, no index.md and templates removed
SiteInit ==
  /\ pages = [s \in SlugSet |-> CASE s = "a" -> PostA [] s = "b" -> TagsPage [] OTHER -> NoFile]
  /\ \E present \in TemplateSets :
       templates = [n \in TemplateNames \cup {"404"} |-> IF n \in present THEN 1 ELSE 0]
  /\ staticFiles = {"css/style.css"}
  /\ out = EmptyMap
  /\ cacheFile = [exists |-> FALSE, map |-> EmptyMap]
  /\ clock = 1
  /\ pc = "idle" /\ origin = "" /\ incremental = FALSE
  /\ cache = EmptyMap /\ newCache = EmptyMap
  /\ tpl = [n \in TemplateNames \cup {"404"} |-> 0]
  /\ mdFiles = <<>> /\ posts = <<>> /\ idx = 0 /\ hasNewPosts = FALSE
  /\ written = {} /\ decided = EmptyMap /\ out0 = EmptyMap
  /\ cache0 = [exists |-> FALSE, map |-> EmptyMap]
  /\ prev = NoPass
  /\ builtSrc = [s \in SlugSet |-> NoFile]
  /\ ops = 0
  /\ ServerDown
  /\ UtilsIdle

SiteSpec == SiteInit /\ [][Next]_vars



(* ---------------------- a template file edited ------------------------ *)
\* an editor save of templates/{n}.html: the watcher reports it as it reports
\* a save under pages/ (the texts of a template are 1..MaxTitle)
SaveTemplate(n) ==
  /\ pc = "idle" /\ ops < MaxOps
  /\ templates[n] # 0
  /\ templates' = [templates EXCEPT ![n] = (templates[n] % MaxTitle) + 1]
  /\ ops' = ops + 1
  /\ UNCHANGED <<devVars, utilVars, pages, staticFiles, out, cacheFile, clock, passVars, obsVars>>

ThemeNext ==
  \/ Next
  \/ \E n \in {"post", "list"} : SaveTemplate(n)

ThemeSpec == Init /\ [][ThemeNext]_vars

(* ------------- a source saved while the pass is running --------------- *)
\* line 798: parseMarkdownFile reads the file (fs.readFileSync, line 412)
ParseRead ==
  /\ pc = "parse"
  /\ pages[mdFiles[idx]].exists
  /\ posts' = Append(posts, parseMarkdownFile(mdFiles[idx], clock))
  /\ pc' = "hash"
  /\ UNCHANGED <<devVars, utilVars, srcVars, out, cacheFile, clock, origin, incremental, cache,
                 newCache, tpl, mdFiles, idx, hasNewPosts, obsVars, ops>>

\* line 800: getFileHash reads the file again (fs.readFileSync, line 176)
ParseHash ==
  /\ pc = "hash"
  /\ newCache' = Put(newCache, mdFiles[idx], getFileHash(mdFiles[idx]))
  /\ IF idx = Len(mdFiles) THEN pc' = "build" /\ idx' = 1
                           ELSE pc' = "parse" /\ idx' = idx + 1
  /\ UNCHANGED <<devVars, utilVars, srcVars, out, cacheFile, clock, origin, incremental, cache,
                 tpl, mdFiles, posts, hasNewPosts, obsVars, ops>>

\* another process (the editor) saves pages/{s}.md between two steps of the pass
ConcurrentSave(s) ==
  /\ pc \in Running \cup {"hash"} /\ ops < MaxOps
  /\ pages[s].exists
  /\ \E f \in Variants(pages[s]) : pages' = [pages EXCEPT ![s] = f]
  /\ ops' = ops + 1
  /\ UNCHANGED <<devVars, utilVars, templates, staticFiles, out, cacheFile, clock, passVars, obsVars>>

RaceNext ==
  \/ \E s \in SlugSet : SavePost(s)
  \/ \E s \in SlugSet : ConcurrentSave(s)
  \/ Tick
  \/ CliBuild
  \/ DevInitialBuild
  \/ DevRebuild
  \/ Clean
  \/ Glob
  \/ ParseRead
  \/ ParseHash
  \/ BuildStep
  \/ RebuildIndex
  \/ TagPages
  \/ Pagination
  \/ Feeds
  \/ CopyStatic
  \/ SaveCache
  \/ Fail
  \/ Return

RaceSpec == Init /\ [][RaceNext]_vars

(* ------------------------ server: startDevServer ---------------------- *)
\* the inputs the server has received so far
Inputs ==
  events + requests + Cardinality({c \in Conns : conn[c] # "idle"})
  + Cardinality({c \in Conns : conn[c] = "gone"})
  + Cardinality({APath} \ DOMAIN out)

\* the build variables stay as the initial build left them
buildVars == <<pages, templates, staticFiles, cacheFile,
               pc, origin, incremental, cache, newCache, tpl, mdFiles, posts, idx,
               hasNewPosts, written, decided, out0, cache0, prev, builtSrc, ops>>

\* a file of the output tree as the server sees it
Served(stem, version, now) == [content |-> <<stem, version>>, mtimeMs |-> now]

\* the server listens after the initial build: public/ holds the pages, a
\* stylesheet and, when templates/404.html exists, 404.html
DevInit ==
  /\ pages = [s \in SlugSet |-> IF s = "a" THEN PostA ELSE NoFile]
  /\ templates = [n \in TemplateNames \cup {"404"} |-> 1]
  /\ staticFiles = {"css/style.css"}
  /\ cacheFile = [exists |-> TRUE, map |-> EmptyMap]
  /\ clock = 1
  /\ pc = "idle" /\ origin = "" /\ incremental = FALSE
  /\ cache = EmptyMap /\ newCache = EmptyMap
  /\ tpl = [n \in TemplateNames \cup {"404"} |-> 0]
  /\ mdFiles = <<>> /\ posts = <<>> /\ idx = 0 /\ hasNewPosts = FALSE
  /\ written = {} /\ decided = EmptyMap /\ out0 = EmptyMap
  /\ cache0 = [exists |-> FALSE, map |-> EmptyMap]
  /\ prev = NoPass
  /\ builtSrc = [s \in SlugSet |-> NoFile]
  /\ ops = 0
  /\ \E has404 \in BOOLEAN :
       out = [f \in {IndexPath, APath, StylePath} \cup (IF has404 THEN {NotFoundPath} ELSE {}) |->
                CASE f = IndexPath -> Served("index", 0, 1)
                  [] f = APath -> Served("a", 0, 1)
                  [] f = StylePath -> Served("style", 0, 1)
                  [] OTHER -> Served("404", 0, 1)]
  /\ alive = TRUE
  /\ timers = EmptyMap /\ buildTimeout = 0 /\ builds = EmptyMap
  /\ clients = <<>> /\ conn = [c \in Conns |-> "idle"] /\ sent = [c \in Conns |-> 0]
  /\ fileCache = <<>> /\ res = NoResponse /\ clientEtag = NoEtag
  /\ events = 0 /\ bursts = 0 /\ requests = 0
  /\ UtilsIdle

\* the request handler for a file (lines 158-218): the response and the cache
\* it leaves; `fs` lists the paths it examined or read
handle(url, inm, at) ==
  LET urlPath0 == IF url = <<"/">> THEN <<"/", "index", ".", "html">> ELSE url
      urlPath == IF extname(urlPath0) = <<>> THEN urlPath0 \o <<".", "html">> ELSE urlPath0
      filePath == sanitizePath(urlPath, outputDir)
      g1 == FileCache_get(fileCache, filePath)
      miss == g1.item = NoItem
      c2 == FileCache_set(g1.cache, CacheCapacity, filePath,
                          out[filePath].content, out[filePath].mtimeMs, at)
      g2 == FileCache_get(c2, filePath)
      cached == IF miss THEN g2.item ELSE g1.item
      contentType == ContentType(filePath)
      req == [url |-> url, inm |-> inm, filePath |-> filePath]
      \* the Map operations, in order
      looked == IF miss /\ g1.stat # {} THEN <<"get", "delete">> ELSE <<"get">>
      loaded == looked
                \o (IF Len(g1.cache) >= CacheCapacity THEN <<"delete first">> ELSE <<>>)
                \o <<"set", "get">>
  IN IF filePath = Null
       THEN [res |-> [status |-> 403,
                      headers |-> Spread(Header("Content-Type", "text/plain"), securityHeaders),
                      body |-> <<"Forbidden">>, req |-> req, fs |-> {}, cacheOps |-> <<>>],
             cache |-> fileCache]
     ELSE IF miss /\ filePath \notin DOMAIN out
       THEN [res |-> [status |-> 404,
                      headers |-> Spread(Header("Content-Type",
                                     IF NotFoundPath \in DOMAIN out THEN "text/html" ELSE "text/plain"),
                                   securityHeaders),
                      body |-> IF NotFoundPath \in DOMAIN out
                                 THEN <<out[NotFoundPath].content>> ELSE <<"404 Not Found">>,
                      req |-> req, fs |-> g1.stat \cup {filePath, NotFoundPath},
                      cacheOps |-> looked],
             cache |-> g1.cache]
     ELSE IF inm # NoEtag /\ inm = cached.etag
       THEN [res |-> [status |-> 304, headers |-> securityHeaders, body |-> <<>>,
                      req |-> req, fs |-> g1.stat \cup {filePath},
                      cacheOps |-> IF miss THEN loaded ELSE looked],
             cache |-> IF miss THEN g2.cache ELSE g1.cache]
     ELSE [res |-> [status |-> 200,
                    headers |-> Spread(Spread(
                        [h \in {"Content-Type", "Content-Length", "ETag"} |->
                           CASE h = "Content-Type" -> contentType
                             [] h = "Content-Length" -> <<"bytes", cached.content, contentType = "text/html">>
                             [] OTHER -> cached.etag],
                        getCacheHeaders), securityHeaders),
                    body |-> <<cached.content,
                               IF contentType = "text/html" THEN "liveReloadScript" ELSE "">>,
                    req |-> req, fs |-> g1.stat \cup {filePath},
                    cacheOps |-> IF miss THEN loaded ELSE looked],
           cache |-> IF miss THEN g2.cache ELSE g1.cache]

\* GET of a file; the browser may send the ETag it last received
Request(url) ==
  /\ alive /\ Inputs < MaxInputs
  /\ \E inm \in {NoEtag, clientEtag} :
       LET r == handle(url, inm, requests + 1)
       IN /\ res' = r.res
          /\ fileCache' = r.cache
          /\ clientEtag' = IF r.res.status = 200 THEN r.res.headers["ETag"] ELSE clientEtag
  /\ requests' = requests + 1
  /\ UNCHANGED <<buildVars, utilVars, out, clock, alive, timers, buildTimeout, builds, clients, conn,
                 sent, events, bursts>>

\* GET /__live-reload (lines 141-156) on connection c; connections are
\* numbered in the order they arrive
Before(d, c) == d = "c1" /\ c = "c2"
Subscribe(c) ==
  /\ alive /\ Inputs < MaxInputs
  /\ conn[c] = "idle" /\ \A d \in Conns : Before(d, c) => conn[d] # "idle"
  /\ res' = [status |-> 200,
             headers |-> Spread(
                 [h \in {"Content-Type", "Cache-Control", "Connection", "Access-Control-Allow-Origin"} |->
                    CASE h = "Content-Type" -> "text/event-stream"
                      [] h = "Cache-Control" -> "no-cache"
                      [] h = "Connection" -> "keep-alive"
                      [] OTHER -> "*"],
                 securityHeaders),
             body |-> <<"stream">>,
             req |-> [url |-> LiveReloadUrl, inm |-> NoEtag, filePath |-> Null],
             fs |-> {}, cacheOps |-> <<>>]
  /\ clients' = Append(clients, c)
  /\ conn' = [conn EXCEPT ![c] = "open"]
  /\ UNCHANGED <<buildVars, utilVars, out, clock, alive, timers, buildTimeout, builds, sent, fileCache,
                 clientEtag, events, bursts, requests>>

\* req.on('close'): indexOf and splice
onClose_keep(cl, c) == cl
onClose(cl, c) ==
  LET at == {i \in 1..Len(cl) : cl[i] = c}
      i == CHOOSE k \in at : \A j \in at : k <= j
  IN IF at = {} THEN cl ELSE SubSeq(cl, 1, i - 1) \o SubSeq(cl, i + 1, Len(cl))

Close(c) ==
  /\ alive /\ Inputs < MaxInputs
  /\ conn[c] = "open"
  /\ clients' = onClose(clients, c)
  /\ conn' = [conn EXCEPT ![c] = "gone"]
  /\ UNCHANGED <<buildVars, utilVars, out, clock, alive, timers, buildTimeout, builds, sent, fileCache,
                 res, clientEtag, events, bursts, requests>>

\* clearTimeout(handle)
clearTimeout_noop(ts, h) == ts
clearTimeout(ts, h) == [x \in DOMAIN ts \ {h} |-> ts[x]]

\* the watcher delivers add, change or unlink: debouncedBuild (lines 246-259)
\* clears the timer it holds and sets a new one
FileEvent ==
  /\ alive /\ Inputs < MaxInputs
  /\ LET h == events + 1
         kept == IF buildTimeout # 0 THEN clearTimeout(timers, buildTimeout) ELSE timers
     IN /\ timers' = Put(kept, h, 0)
        /\ buildTimeout' = h
        /\ events' = h
  /\ bursts' = IF buildTimeout \in DOMAIN timers THEN bursts ELSE bursts + 1
  /\ UNCHANGED <<buildVars, utilVars, out, clock, alive, builds, clients, conn, sent, fileCache, res,
                 clientEtag, requests>>

\* the timer clock advances
Elapse ==
  /\ alive
  /\ \E h \in DOMAIN timers : timers[h] < DebounceTicks
  /\ timers' = [h \in DOMAIN timers |-> Min(timers[h] + 1, DebounceTicks)]
  /\ UNCHANGED <<buildVars, utilVars, out, clock, alive, buildTimeout, builds, clients, conn, sent,
                 fileCache, res, clientEtag, events, bursts, requests>>

\* the clock that stamps modification times advances
DevTick ==
  /\ alive /\ clock < MaxClock
  /\ clock' = clock + 1
  /\ UNCHANGED <<buildVars, utilVars, out, devVars>>

\* notifyReload(clients): one write per element of the array
notifyReload_first(cl) ==
  << <<"notify">> >> \o [i \in 1..Min(1, Len(cl)) |-> <<"write", cl[i]>>]
notifyReload(cl) == << <<"notify">> >> \o [i \in 1..Len(cl) |-> <<"write", cl[i]>>]
\* lines 252-253 after the build resolved
onRebuilt_notifyFirst(cl) == notifyReload(cl) \o << <<"clear">> >>
onRebuilt(cl) == << <<"clear">> >> \o notifyReload(cl)
\* line 256 after the build rejected: the error is logged
onBuildError_exit(running) == FALSE
onBuildError(running) == running

Writes(effects, c) == Cardinality({i \in 1..Len(effects) : effects[i] = <<"write", c>>})

\* the timer fires: the callback calls buildFn, which runs up to its await
\* (ensureDir, loadTemplates: no output file touched) or throws before it
TimerFire(h) ==
  /\ alive
  /\ h \in DOMAIN timers /\ timers[h] = DebounceTicks
  /\ timers' = [x \in DOMAIN timers \ {h} |-> timers[x]]
  /\ \E thrown \in BOOLEAN :
       /\ builds' = Put(builds, h, [status |-> IF thrown THEN "rejected" ELSE "await",
                                    effects |-> <<>>, clients |-> clients])
       /\ alive' = IF thrown THEN onBuildError(alive) ELSE alive
  /\ UNCHANGED <<buildVars, utilVars, out, clock, buildTimeout, clients, conn, sent, fileCache, res,
                 clientEtag, events, bursts, requests>>

\* what an incremental pass over the current sources writes, in order
BuildWrites(version, now, tree) ==
  << <<APath, Served("a", version, now)>>,
     <<IndexPath, Served("index", version, now)>>,
     <<StylePath, Served("style", 0, now)>> >>
  \o (IF NotFoundPath \in DOMAIN tree THEN << <<NotFoundPath, Served("404", 0, now)>> >> ELSE <<>>)

\* glob has answered: the pass runs to its end or throws after k writes;
\* the callback then clears the cache and notifies, or logs the error
GlobDone(h) ==
  /\ alive
  /\ h \in DOMAIN builds /\ builds[h].status = "await"
  /\ LET w == BuildWrites(events, clock, out)
     IN \E k \in 0..Len(w), ok \in BOOLEAN :
          /\ ok => k = Len(w)
          /\ out' = WriteAll(out, SubSeq(w, 1, k))
          /\ LET effects == IF ok THEN onRebuilt(clients) ELSE <<>>
             IN /\ builds' = [builds EXCEPT ![h] =
                                [status |-> IF ok THEN "resolved" ELSE "rejected",
                                 effects |-> effects, clients |-> clients]]
                /\ fileCache' = IF \E i \in 1..Len(effects) : effects[i] = <<"clear">>
                                  THEN FileCache_clear(fileCache) ELSE fileCache
                /\ sent' = [c \in Conns |-> sent[c] + Writes(effects, c)]
          /\ alive' = IF ok THEN alive ELSE onBuildError(alive)
  /\ UNCHANGED <<buildVars, utilVars, clock, timers, buildTimeout, clients, conn, res, clientEtag,
                 events, bursts, requests>>

\* a page of public/ removed from outside the server (rm, a clean by hand)
RemoveOutput ==
  /\ alive /\ Inputs < MaxInputs
  /\ APath \in DOMAIN out
  /\ out' = [f \in DOMAIN out \ {APath} |-> out[f]]
  /\ UNCHANGED <<buildVars, utilVars, clock, devVars>>

\* process.on('SIGINT'): watcher.close, server.close, process.exit
Sigint ==
  /\ alive
  /\ alive' = FALSE
  /\ timers' = EmptyMap /\ buildTimeout' = 0 /\ builds' = EmptyMap
  /\ clients' = <<>> /\ conn' = [c \in Conns |-> "idle"] /\ sent' = [c \in Conns |-> 0]
  /\ fileCache' = <<>> /\ res' = NoResponse /\ clientEtag' = NoEtag
  /\ events' = 0 /\ bursts' = 0 /\ requests' = 0
  /\ UNCHANGED <<buildVars, utilVars, out, clock>>

DevNext ==
  \/ \E u \in Urls : Request(u)
  \/ \E c \in Conns : Subscribe(c)
  \/ \E c \in Conns : Close(c)
  \/ FileEvent
  \/ Elapse
  \/ DevTick
  \/ \E h \in 1..MaxInputs : TimerFire(h)
  \/ \E h \in 1..MaxInputs : GlobDone(h)
  \/ RemoveOutput
  \/ Sigint

DevSpec == DevInit /\ [][DevNext]_vars

(* --------------------- the watch loop, scheduled ---------------------- *)
\* the server with its watcher and its live-reload clients, no file requested;
\* the event loop runs every timer that is due and every callback whose
\* promise has settled: time passes, a due timer fires, glob answers
WatchNext ==
  \/ \E c \in Conns : Subscribe(c)
  \/ \E c \in Conns : Close(c)
  \/ FileEvent
  \/ Elapse
  \/ DevTick
  \/ \E h \in 1..MaxInputs : TimerFire(h)
  \/ \E h \in 1..MaxInputs : GlobDone(h)
  \/ Sigint

WatchSpec ==
  /\ DevInit /\ [][WatchNext]_vars
  /\ WF_vars(Elapse)
  /\ \A h \in 1..MaxInputs : WF_vars(TimerFire(h)) /\ WF_vars(GlobDone(h))

(* ------------- a request racing with the file system ------------------ *)
\* a directory of the output tree whose name has an extension (static/v1.0/)
DirPath == outputDir \o <<"/", "v1", ".", "0">>
DirUrl == <<"/", "v1", ".", "0">>
\* what another process does to the requested file while the handler runs:
\* nothing, or an unlink or a rewrite between two of the handler's calls
Fates == {"none", "unlink before statSync", "unlink before readFileSync",
          "unlink before get", "write before get", "unlink 404.html before readFileSync"}

\* the request handler (lines 158-218) call by call; nothing catches what
\* statSync, readFileSync or the read of cached.etag throw
Thrown(filePath, fate) ==
  LET missed == filePath # Null /\ FileCache_get(fileCache, filePath).item = NoItem
      loads == missed /\ filePath \in DOMAIN out
  IN IF missed /\ filePath = DirPath THEN "EISDIR"
     ELSE IF loads /\ fate \in {"unlink before statSync", "unlink before readFileSync"}
       THEN "ENOENT"
     ELSE IF loads /\ fate \in {"unlink before get", "write before get"} THEN "TypeError"
     ELSE IF /\ missed /\ filePath \notin DOMAIN out /\ NotFoundPath \in DOMAIN out
             /\ fate = "unlink 404.html before readFileSync"
       THEN "ENOENT"
     ELSE ""

\* GET of a file while another process may touch the output tree; an
\* exception thrown in the request listener is uncaught and ends the process
RacingRequest(url) ==
  /\ alive /\ Inputs < MaxInputs
  /\ \E inm \in {NoEtag, clientEtag}, fate \in Fates :
     \E r \in {handle(url, inm, requests + 1)} :
     \E thrown \in {Thrown(r.res.req.filePath, fate)} :
       LET hit == IF fate = "unlink 404.html before readFileSync" THEN NotFoundPath
                  ELSE r.res.req.filePath
       IN /\ fate # "none" => thrown \notin {"", "EISDIR"}
          /\ IF thrown = ""
               THEN /\ res' = r.res
                    /\ fileCache' = r.cache
                    /\ clientEtag' = IF r.res.status = 200 THEN r.res.headers["ETag"]
                                                           ELSE clientEtag
                    /\ UNCHANGED <<out, alive>>
               ELSE /\ res' = [status |-> 0, thrown |-> thrown, req |-> r.res.req]
                    /\ alive' = FALSE
                    /\ out' = IF fate = "none" THEN out
                              ELSE IF fate = "write before get"
                                THEN [out EXCEPT ![hit].mtimeMs = @ + 1]
                                ELSE [f \in DOMAIN out \ {hit} |-> out[f]]
                    /\ UNCHANGED <<fileCache, clientEtag>>
  /\ requests' = requests + 1
  /\ UNCHANGED <<buildVars, utilVars, clock, timers, buildTimeout, builds, clients, conn,
                 sent, events, bursts>>

ServeNext ==
  \/ \E u \in Urls \cup {DirUrl} : RacingRequest(u)
  \/ \E c \in Conns : Subscribe(c)
  \/ \E c \in Conns : Close(c)
  \/ FileEvent
  \/ Elapse
  \/ DevTick
  \/ \E h \in 1..MaxInputs : TimerFire(h)
  \/ \E h \in 1..MaxInputs : GlobDone(h)
  \/ RemoveOutput
  \/ Sigint

ServeSpec == DevInit /\ [][ServeNext]_vars

(* ------------------------ utils called on their own ------------------ *)
\* everything but the call under study: no project, no pass, no server
siteVars == <<buildVars, out, clock, devVars>>
NoProject ==
  /\ pages = [s \in SlugSet |-> NoFile]
  /\ templates = [n \in TemplateNames \cup {"404"} |-> 0]
  /\ staticFiles = {}
  /\ out = EmptyMap
  /\ cacheFile = [exists |-> FALSE, map |-> EmptyMap]
  /\ clock = 1
  /\ pc = "idle" /\ origin = "" /\ incremental = FALSE
  /\ cache = EmptyMap /\ newCache = EmptyMap
  /\ tpl = [n \in TemplateNames \cup {"404"} |-> 0]
  /\ mdFiles = <<>> /\ posts = <<>> /\ idx = 0 /\ hasNewPosts = FALSE
  /\ written = {} /\ decided = EmptyMap /\ out0 = EmptyMap
  /\ cache0 = [exists |-> FALSE, map |-> EmptyMap]
  /\ prev = NoPass
  /\ builtSrc = [s \in SlugSet |-> NoFile]
  /\ ops = 0
  /\ ServerDown

(* --------------------- loadConfig and paginate ------------------------ *)
\* a JSON value of config.json: null or a number
JsonNull == [type |-> "null", v |-> 0]
JsonNumber(k) == [type |-> "number", v |-> k]
\* config.json: missing, not parseable, or an object with or without postsPerPage
ConfigFiles ==
  {[state |-> "missing", has |-> FALSE, postsPerPage |-> JsonNull],
   [state |-> "invalid", has |-> FALSE, postsPerPage |-> JsonNull],
   [state |-> "object", has |-> FALSE, postsPerPage |-> JsonNull],
   [state |-> "object", has |-> TRUE, postsPerPage |-> JsonNull]}
  \cup {[state |-> "object", has |-> TRUE, postsPerPage |-> JsonNumber(k)] :
           k \in (-1)..MaxPerPage}

\* { ...defaultConfig, ...userConfig }, defaultConfig on a missing or invalid file
loadConfig(file) ==
  [postsPerPage |-> IF file.state = "object" /\ file.has THEN file.postsPerPage
                    ELSE JsonNumber(postsPerPage)]

\* ToNumber of a JSON value in arithmetic: null is 0
ToNumber(j) == IF j.type = "null" THEN 0 ELSE j.v

\* a JavaScript number: an integer, Infinity or NaN
Num(k) == [kind |-> "num", n |-> k]
Infinity == [kind |-> "Infinity", n |-> 0]
NaN == [kind |-> "NaN", n |-> 0]

\* Math.ceil(length / perPage)
CeilDiv(length, perPage) ==
  IF perPage = 0 THEN (IF length = 0 THEN NaN ELSE Infinity)
  ELSE IF perPage > 0 THEN Num(Ceil(length, perPage))
  ELSE Num(0 - (length \div (0 - perPage)))

\* i < x and x - 1 for an integer i and a JavaScript number x
Less(i, x) == x.kind = "Infinity" \/ (x.kind = "num" /\ i < x.n)
MinusOne(x) == IF x.kind = "num" THEN Num(x.n - 1) ELSE x

\* items.slice(start, end) for 0 <= start <= end
slice_inclusive(items, start, end) == SubSeq(items, start + 1, Min(end + 1, Len(items)))
slice(items, start, end) == SubSeq(items, start + 1, Min(end, Len(items)))

\* the object pushed by iteration i of the loop (null is 0)
PageAt(items, perPage, totalPages, i) ==
  [items |-> slice(items, i * perPage, i * perPage + perPage),
   currentPage |-> i + 1,
   totalPages |-> totalPages,
   hasNext |-> Less(i, MinusOne(totalPages)),
   hasPrev |-> i > 0,
   nextPage |-> IF Less(i, MinusOne(totalPages)) THEN i + 2 ELSE 0,
   prevPage |-> IF i > 0 THEN i ELSE 0]

\* the previous and next links buildPaginationPages renders for a page
NoLink == <<>>
PaginationNav(page) ==
  [prev |-> IF page.hasPrev
              THEN (IF page.prevPage = 1 THEN <<"/">> ELSE <<PageFile(page.prevPage)>>)
              ELSE NoLink,
   next |-> IF page.hasNext THEN <<PageFile(page.nextPage)>> ELSE NoLink]

\* the loop is followed for at most MaxPages iterations
MaxPages == MaxItems + 2

\* buildPaginationPages is about to call paginate(sortedPosts, config.postsPerPage)
PaginateInit ==
  /\ NoProject
  /\ \E file \in ConfigFiles, n \in 0..MaxItems :
       pgCall = [pc |-> "called",
                 items |-> [k \in 1..n |-> k],
                 perPage |-> loadConfig(file).postsPerPage,
                 totalPages |-> Num(0), i |-> 0, pages |-> <<>>]
  /\ relCall = NoCall /\ hdCall = NoCall /\ imCall = NoCall

\* lines 278-279
PaginateEnter ==
  /\ pgCall.pc = "called"
  /\ pgCall' = [pgCall EXCEPT !.pc = "loop",
                              !.totalPages = CeilDiv(Len(pgCall.items), ToNumber(pgCall.perPage)),
                              !.pages = <<>>, !.i = 0]
  /\ UNCHANGED <<siteVars, relCall, hdCall, imCall>>

\* lines 281-293: one iteration
PaginateLoop ==
  /\ pgCall.pc = "loop"
  /\ Less(pgCall.i, pgCall.totalPages)
  /\ Len(pgCall.pages) < MaxPages
  /\ pgCall' = [pgCall EXCEPT
                  !.pages = Append(@, PageAt(pgCall.items, ToNumber(pgCall.perPage),
                                             pgCall.totalPages, pgCall.i)),
                  !.i = @ + 1]
  /\ UNCHANGED <<siteVars, relCall, hdCall, imCall>>

\* line 295
PaginateReturn ==
  /\ pgCall.pc = "loop"
  /\ ~Less(pgCall.i, pgCall.totalPages)
  /\ pgCall' = [pgCall EXCEPT !.pc = "returned"]
  /\ UNCHANGED <<siteVars, relCall, hdCall, imCall>>

PaginateNext == PaginateEnter \/ PaginateLoop \/ PaginateReturn

PaginateSpec == PaginateInit /\ [][PaginateNext]_vars

(* -------------------------- findRelatedPosts -------------------------- *)
\* the limit buildPost leaves to its default (limit = 3)
RelatedLimit == 3

\* an ordinary post and the pages findRelatedPosts leaves out by slug
PostSlug(k) == "p" \o ToString(k)
SomePost(slug, tagset, isDraft) ==
  [slug |-> slug, title |-> 1, date |-> 1, tags |-> tagset, template |-> "post",
   draft |-> isDraft]
SpecialPosts ==
  <<SomePost("index", Tags, FALSE), SomePost("about", Tags, FALSE),
    SomePost("tags/index", Tags, FALSE)>>

\* buildPost is about to call findRelatedPosts(post, allPosts): the posts carry
\* any tags, at most one is a draft, the current post is one of them
RelatedInit ==
  /\ NoProject
  /\ \E tagsOf \in [1..MaxPosts -> SUBSET Tags], d \in 0..MaxPosts, limit \in 1..RelatedLimit :
       LET allPosts == [k \in 1..MaxPosts |-> SomePost(PostSlug(k), tagsOf[k], k = d)]
                       \o SpecialPosts
       IN \E c \in 1..Len(allPosts) :
            relCall = [pc |-> "called", currentPost |-> allPosts[c], allPosts |-> allPosts,
                       limit |-> limit, result |-> <<>>]
  /\ pgCall = NoCall /\ hdCall = NoCall /\ imCall = NoCall

\* lines 70-90
FindRelated ==
  /\ relCall.pc = "called"
  /\ relCall' = [relCall EXCEPT
                   !.pc = "returned",
                   !.result = findRelatedPosts(relCall.currentPost, relCall.allPosts,
                                               relCall.limit)]
  /\ UNCHANGED <<siteVars, pgCall, hdCall, imCall>>

RelatedNext == FindRelated

RelatedSpec == RelatedInit /\ [][RelatedNext]_vars

(* --------------------------- addHeadingIds ---------------------------- *)
\* the text of a heading is a sequence of characters
HeadingTexts ==
  { <<"f">>, <<"F">>, <<"g">>, <<"f", "!">>, <<"f", " ", "2">>, <<"f", "-", "2">>,
    <<"f", " ", " ", "g">> }

\* String.prototype.toLowerCase
toLowerCase(t) == [i \in 1..Len(t) |-> IF t[i] = "F" THEN "f" ELSE t[i]]
\* replace(/[^a-z0-9\s-]/g, '')
Strip(t) == SelectSeq(t, LAMBDA c : c \in {"f", "g", "2", " ", "-"})
\* replace(/\s+/g, '-') and replace(/-+/g, '-'): every run of characters of S
\* becomes one '-'
RECURSIVE DropRun(_, _)
DropRun(t, S) == IF t # <<>> /\ Head(t) \in S THEN DropRun(Tail(t), S) ELSE t
RECURSIVE ReplaceRuns(_, _)
ReplaceRuns(t, S) ==
  IF t = <<>> THEN <<>>
  ELSE IF Head(t) \in S THEN <<"-">> \o ReplaceRuns(DropRun(t, S), S)
  ELSE <<Head(t)>> \o ReplaceRuns(Tail(t), S)
\* String.prototype.trim
RECURSIVE trim(_)
trim(t) ==
  IF t # <<>> /\ Head(t) = " " THEN trim(Tail(t))
  ELSE IF t # <<>> /\ t[Len(t)] = " " THEN trim(SubSeq(t, 1, Len(t) - 1))
  ELSE t

\* lines 49-54: the identifier derived from the text
DerivedId(text) == trim(ReplaceRuns(ReplaceRuns(Strip(toLowerCase(text)), {" "}), {"-"}))

\* marked has rendered the document: addHeadingIds(html) is called
HeadingsInit ==
  /\ NoProject
  /\ \E n \in 0..MaxHeadings : \E texts \in [1..n -> HeadingTexts] :
       hdCall = [pc |-> "called", texts |-> texts, k |-> 1, counter |-> EmptyMap,
                 ids |-> <<>>]
  /\ pgCall = NoCall /\ relCall = NoCall /\ imCall = NoCall

\* lines 48-63: the replace callback for the next heading
ReplaceHeading ==
  /\ hdCall.pc = "called" /\ hdCall.k <= Len(hdCall.texts)
  /\ LET id == DerivedId(hdCall.texts[hdCall.k])
         seen == id \in DOMAIN hdCall.counter
         count == IF seen THEN hdCall.counter[id] + 1 ELSE 1
     IN hdCall' = [hdCall EXCEPT
                     !.counter = Put(@, id, count),
                     !.ids = Append(@, IF seen THEN id \o <<"-", ToString(count)>> ELSE id),
                     !.k = @ + 1]
  /\ UNCHANGED <<siteVars, pgCall, relCall, imCall>>

\* replace returns the document
ReplaceReturn ==
  /\ hdCall.pc = "called" /\ hdCall.k > Len(hdCall.texts)
  /\ hdCall' = [hdCall EXCEPT !.pc = "returned"]
  /\ UNCHANGED <<siteVars, pgCall, relCall, imCall>>

HeadingsNext == ReplaceHeading \/ ReplaceReturn

HeadingsSpec == HeadingsInit /\ [][HeadingsNext]_vars

(* --------------------------- processImages ---------------------------- *)
\* const batchSize = 5
batchSize == 5

\* the images of the batch that starts at index i (optimizableImages.slice)
Batch(i, n) == (i + 1)..Min(i + batchSize, n)
\* the position of the batch an image belongs to
BatchOf(f) == (f - 1) \div batchSize

\* Promise.all(batchPromises) has resolved: every promise of the batch has
Promise_all_any(batch, state) == \E f \in batch : state[f] \in {"done", "skipped"}
Promise_all(batch, state) == \A f \in batch : state[f] \in {"done", "skipped"}

\* processImages has been called: glob has listed the images; some are
\* unchanged since the cache was written and have their .webp in the output
ImagesInit ==
  /\ NoProject
  /\ \E n \in 0..MaxImages :
       \E unchanged \in {S \in SUBSET (1..n) : Cardinality(S) <= 1} \cup {1..n} :
         imCall = [pc |-> "called", n |-> n, unchanged |-> unchanged, i |-> 0,
                   state |-> [f \in 1..n |-> "waiting"],
                   newCache |-> {}, copied |-> FALSE, saved |-> FALSE]
  /\ pgCall = NoCall /\ relCall = NoCall /\ hdCall = NoCall

\* lines 84-96
ImagesEnter ==
  /\ imCall.pc = "called"
  /\ imCall' = [imCall EXCEPT !.pc = "loop"]
  /\ UNCHANGED <<siteVars, pgCall, relCall, hdCall>>

\* lines 100-125, up to the await: batch.map runs every callback to its first
\* await; an unchanged image returns at once, any other is handed to sharp
StartBatch ==
  /\ imCall.pc = "loop" /\ imCall.i < imCall.n
  /\ LET batch == Batch(imCall.i, imCall.n)
     IN imCall' = [imCall EXCEPT
                    !.pc = "await",
                    !.newCache = @ \cup batch,
                    !.state = [f \in 1..imCall.n |->
                                 IF f \notin batch THEN imCall.state[f]
                                 ELSE IF f \in imCall.unchanged THEN "skipped"
                                 ELSE "flight"]]
  /\ UNCHANGED <<siteVars, pgCall, relCall, hdCall>>

\* optimizeImage, lines 47-57: toFile has succeeded, or it has failed and the
\* original was copied instead
Optimized(f) ==
  /\ imCall.pc \in {"await", "failed"}
  /\ f \in 1..imCall.n /\ imCall.state[f] = "flight"
  /\ imCall' = [imCall EXCEPT !.state[f] = "done"]
  /\ UNCHANGED <<siteVars, pgCall, relCall, hdCall>>

\* optimizeImage, line 56: the copy of the original has thrown too
OptimizeThrew(f) ==
  /\ imCall.pc \in {"await", "failed"}
  /\ f \in 1..imCall.n /\ imCall.state[f] = "flight"
  /\ imCall' = [imCall EXCEPT !.state[f] = "failed"]
  /\ UNCHANGED <<siteVars, pgCall, relCall, hdCall>>

\* lines 125-127 and the loop increment: the await returns
BatchResolved ==
  /\ imCall.pc = "await"
  /\ Promise_all(Batch(imCall.i, imCall.n), imCall.state)
  /\ imCall' = [imCall EXCEPT !.pc = "loop", !.i = @ + batchSize]
  /\ UNCHANGED <<siteVars, pgCall, relCall, hdCall>>

\* line 125: a promise of the batch has rejected, the await throws and
\* processImages rejects, whatever is still in flight
BatchRejected ==
  /\ imCall.pc = "await"
  /\ \E f \in Batch(imCall.i, imCall.n) : imCall.state[f] = "failed"
  /\ imCall' = [imCall EXCEPT !.pc = "failed"]
  /\ UNCHANGED <<siteVars, pgCall, relCall, hdCall>>

\* lines 129-147: the loop has ended, the other files are copied
CopyOthers ==
  /\ imCall.pc = "loop" /\ imCall.i >= imCall.n
  /\ \E ok \in BOOLEAN :
       imCall' = [imCall EXCEPT !.pc = IF ok THEN "save" ELSE "failed", !.copied = ok]
  /\ UNCHANGED <<siteVars, pgCall, relCall, hdCall>>

\* line 149: saveBuildCache(cacheFile, newCache)
SaveImageCache ==
  /\ imCall.pc = "save"
  /\ imCall' = [imCall EXCEPT !.pc = "done", !.saved = TRUE]
  /\ UNCHANGED <<siteVars, pgCall, relCall, hdCall>>

ImagesNext ==
  \/ ImagesEnter
  \/ StartBatch
  \/ \E f \in 1..MaxImages : Optimized(f)
  \/ \E f \in 1..MaxImages : OptimizeThrew(f)
  \/ BatchResolved
  \/ BatchRejected
  \/ CopyOthers
  \/ SaveImageCache

ImagesSpec == ImagesInit /\ [][ImagesNext]_vars

(* ------------------------- the dev command --------------------------- *)
\* static/images: two images to optimize and one to copy as it is
Optimizable == {"images/p.jpg", "images/q.png"}
CopyOnly == {"images/anim.gif"}
\* path.join(outDir, `${name}.webp`)
WebpOf(f) == IF f = "images/p.jpg" THEN "images/p.webp" ELSE "images/q.webp"
\* path.join(inputDir, '.image-cache.json') under static/
ImageCacheFile == "images/.image-cache.json"

\* processImages(static/images, public/images) as a whole: an image whose hash
\* is cached and whose .webp is in the output is skipped, any other is
\* converted (or copied when sharp fails, the images of `failing`); the others
\* are copied; the cache is saved in static/images
processImages(tree, files, failing) ==
  LET hit(f) == ImageCacheFile \in files /\ WebpOf(f) \in DOMAIN tree
      todo == {f \in files \cap Optimizable : ~hit(f)}
      made == [f \in todo |-> IF f \in failing THEN f ELSE WebpOf(f)]
      names == {made[f] : f \in todo} \cup (files \cap CopyOnly)
  IN [tree |-> [n \in DOMAIN tree \cup names |->
                  IF n \in files \cap CopyOnly THEN [static |-> n]
                  ELSE IF \E f \in todo : made[f] = n
                         THEN (IF n \in failing THEN [static |-> n] ELSE [webp |-> n])
                         ELSE tree[n]],
      webp |-> {WebpOf(f) : f \in {g \in files \cap Optimizable : g \notin failing \/ hit(g)}},
      files |-> files \cup {ImageCacheFile}]

\* the command has not been started: the project of Init with images under
\* static/images
StartInit ==
  /\ \E ix \in {NoFile, IndexPage} :
       pages = [s \in SlugSet |-> CASE s = "a" -> PostA [] s = "b" -> PostB [] OTHER -> ix]
  /\ templates = [n \in TemplateNames \cup {"404"} |-> 1]
  /\ \E imgs \in SUBSET (Optimizable \cup CopyOnly) : staticFiles = {"css/style.css"} \cup imgs
  /\ out = EmptyMap
  /\ cacheFile = [exists |-> FALSE, map |-> EmptyMap]
  /\ clock = 1
  /\ pc = "idle" /\ origin = "" /\ incremental = FALSE
  /\ cache = EmptyMap /\ newCache = EmptyMap
  /\ tpl = [n \in TemplateNames \cup {"404"} |-> 0]
  /\ mdFiles = <<>> /\ posts = <<>> /\ idx = 0 /\ hasNewPosts = FALSE
  /\ written = {} /\ decided = EmptyMap /\ out0 = EmptyMap
  /\ cache0 = [exists |-> FALSE, map |-> EmptyMap]
  /\ prev = NoPass
  /\ builtSrc = [s \in SlugSet |-> NoFile]
  /\ ops = 0
  /\ ServerDown
  /\ UtilsIdle

\* dev(), lines 938-944: processImages when static/images exists
DevImages ==
  /\ ~alive /\ pc = "idle" /\ imCall = NoCall /\ ops < MaxOps
  /\ IF staticFiles \cap (Optimizable \cup CopyOnly \cup {ImageCacheFile}) = {}
       THEN /\ imCall' = [pc |-> "processed", webp |-> {}]
            /\ UNCHANGED <<out, staticFiles>>
       ELSE \E failing \in SUBSET (staticFiles \cap Optimizable) :
              LET r == processImages(out, staticFiles, failing)
              IN /\ out' = r.tree
                 /\ staticFiles' = r.files
                 /\ imCall' = [pc |-> "processed", webp |-> r.webp]
  /\ UNCHANGED <<devVars, pgCall, relCall, hdCall, pages, templates, cacheFile, clock,
                 passVars, obsVars, ops>>

\* dev(), line 946, and startDevServer, line 131: the initial build
DevStartBuild ==
  /\ imCall.pc = "processed" /\ prev = NoPass
  /\ DevInitialBuild

\* startDevServer, lines 134-225: the build has resolved, the server listens
Listen ==
  /\ imCall.pc = "processed" /\ pc = "idle" /\ prev.status = "done"
  /\ alive' = TRUE
  /\ imCall' = [imCall EXCEPT !.pc = "listening"]
  /\ UNCHANGED <<buildVars, out, clock, timers, buildTimeout, builds, clients, conn, sent,
                 fileCache, res, clientEtag, events, bursts, requests, pgCall, relCall, hdCall>>

\* the build has rejected: startDevServer and dev reject, the process ends
StartFailed ==
  /\ imCall.pc = "processed" /\ pc = "idle" /\ prev.status = "failed"
  /\ imCall' = NoCall
  /\ prev' = NoPass
  /\ UNCHANGED <<devVars, pgCall, relCall, hdCall, srcVars, out, cacheFile, clock, passVars,
                 written, decided, out0, cache0, builtSrc, ops>>

\* SIGINT (lines 267-271): the process ends; the command can be started again
Stop ==
  /\ alive /\ imCall.pc = "listening"
  /\ alive' = FALSE
  /\ imCall' = NoCall
  /\ prev' = NoPass
  /\ UNCHANGED <<timers, buildTimeout, builds, clients, conn, sent, fileCache, res, clientEtag,
                 events, bursts, requests, pgCall, relCall, hdCall, srcVars, out, cacheFile,
                 clock, passVars, written, decided, out0, cache0, builtSrc, ops>>

StartNext ==
  \/ DevImages
  \/ DevStartBuild
  \/ Clean
  \/ Glob
  \/ Parse
  \/ BuildStep
  \/ RebuildIndex
  \/ TagPages
  \/ Pagination
  \/ Feeds
  \/ CopyStatic
  \/ SaveCache
  \/ Fail
  \/ Return
  \/ Listen
  \/ StartFailed
  \/ Stop

StartSpec == StartInit /\ [][StartNext]_vars

(* ------------------------------ claims -------------------------------- *)
\* the non-draft posts among the sources
Published == {s \in SlugSet : pages[s].exists /\ ~pages[s].draft}
\* the sources that differ from what the last completed pass parsed
Changed == {s \in SlugSet : pages[s] # builtSrc[s]}
\* the slugs a generated listing, feed or sitemap links to
Refs(content) ==
  IF "posts" \in DOMAIN content THEN {content.posts[i][1] : i \in 1..Len(content.posts)}
  ELSE IF "items" \in DOMAIN content THEN {content.items[i][1] : i \in 1..Len(content.items)}
  ELSE IF "urls" \in DOMAIN content THEN {content.urls[i][1] : i \in 1..Len(content.urls)}
  ELSE {}

\* C1 (as stated): when a pass that rebuilt at least one non-draft post completes,
\* that pass has written index.html, every tag page and every pagination page.
C1_Cascade ==
  (pc = "done" /\ hasNewPosts) =>
     /\ IndexFile \in written
     /\ Targets(buildTagPages(posts, tpl)) \subseteq written
     /\ \A i \in 1..Len(paginate(SelectSeq(posts, Listed), postsPerPage)) :
          PageFile(i) \in written

\* C2: every rebuild decision of a pass is false exactly when the pass is
\* incremental and the file's current md5 equals the entry the persisted snapshot
\* holds for that path; it is true for a path the snapshot lacks and for every
\* path of a non-incremental pass.
C2_CacheGating ==
  \A s \in DOMAIN decided :
    decided[s] = ~( /\ incremental
                    /\ cache0.exists
                    /\ s \in DOMAIN cache0.map
                    /\ pages[s].exists
                    /\ cache0.map[s] = Md5(pages[s]) )

\* C2 witness: an incremental pass decided "no rebuild" for an unchanged file
\* and "rebuild" for a path absent from the snapshot.
C2_Witness ==
  /\ pc = "done" /\ incremental /\ cache0.exists
  /\ \E s \in DOMAIN decided : ~decided[s]
  /\ \E s \in DOMAIN decided : decided[s] /\ s \notin DOMAIN cache0.map

\* C3: after a completed pass, when exactly one content file has changed and an
\* incremental pass completes, the only post pages that pass wrote are the
\* changed file's page and the root page index.html; every other post page has
\* the bytes it had before the pass; and the changed file's page was written
\* when that file is a non-draft post with a template to render it.
C3_IncrementalFrame ==
  (pc = "done" /\ incremental /\ cache0.exists /\ Cardinality(Changed) = 1) =>
     \A c \in Changed :
        /\ (written \cap PostFiles) \subseteq {PostFile(c), IndexFile}
        /\ \A s \in SlugSet \ {c, "index"} :
             PostFile(s) \in DOMAIN out0 =>
               /\ PostFile(s) \in DOMAIN out
               /\ out[PostFile(s)] = out0[PostFile(s)]
        /\ (c \in Published /\ PostTemplate(parseMarkdownFile(c, clock), tpl) # "")
             => PostFile(c) \in written

\* C3 witness: one file changed, its page was rewritten and another post's page
\* was left alone.
C3_Witness ==
  /\ pc = "done" /\ incremental /\ cache0.exists /\ Cardinality(Changed) = 1
  /\ \E c \in Changed :
       /\ c # "index" /\ PostFile(c) \in written
       /\ out[PostFile(c)] # out0[PostFile(c)]
       /\ \E s \in SlugSet \ {c, "index"} : PostFile(s) \in DOMAIN out0 \ written

\* C4 (as stated): a full pass that completes after a completed full pass over
\* the same sources leaves the output tree exactly as that earlier pass left it.
C4_Idempotence ==
  (pc = "done" /\ ~incremental /\ prev.status = "done" /\ ~prev.incremental
     /\ pages = builtSrc) => out = out0

C6_CrashRecovery ==
  (pc = "done" /\ prev.status = "failed") =>
     \A s \in Published :
        (\/ PostFile(s) \notin DOMAIN out0
         \/ (PostFile(s) \notin prev.written /\ s \in Changed))
        => PostFile(s) \in written

C8_CleanOrKeep ==
  /\ (~incremental /\ pc \in (Running \ {"clean"}) \cup {"done"}) => DOMAIN out = written
  /\ (incremental /\ pc \in Running \cup {"done", "failed"}) =>
        DOMAIN out0 \subseteq DOMAIN out

\* C8 witness: a full pass completed without a file the output held before,
\* or an incremental pass completed keeping a file it did not write.
C8_Witness ==
  /\ pc = "done" /\ out0 # EmptyMap
  /\ IF incremental THEN \E f \in DOMAIN out0 : f \notin written
                    ELSE \E f \in DOMAIN out0 : f \notin DOMAIN out

\* C9 (as stated): a pass started by the CLI build command is non-incremental,
\* starts from an empty snapshot, and when it completes it has written the page
\* of every non-draft post.
C9_CliFullBuild ==
  origin = "cli" =>
     /\ ~incremental
     /\ cache = EmptyMap
     /\ pc = "done" => \A s \in Published : PostFile(s) \in written

\* C10 (as stated): after a completed pass the output holds no page for a post
\* (other than the root page) whose front-matter says draft: true, and no
\* listing, tag page, feed or sitemap in the output links to it.
C10_DraftUnpublished ==
  pc = "done" =>
     \A s \in SlugSet \ {"index"} :
        (pages[s].exists /\ pages[s].draft) =>
           /\ PostFile(s) \notin DOMAIN out
           /\ \A f \in DOMAIN out : s \notin Refs(out[f])

(* ---------------------- claims: the dev server ------------------------ *)
\* the rebuilds suspended at their await
InFlight == {h \in DOMAIN builds : builds[h].status = "await"}
\* the rebuilds that end in the step being taken, with the given outcome
Ending(h, outcome) ==
  /\ alive /\ h \in DOMAIN builds /\ builds[h].status = "await"
  /\ h \in DOMAIN builds' /\ builds'[h].status = outcome
\* the step being taken starts rebuild h
Starting(h) == alive /\ h \notin DOMAIN builds /\ h \in DOMAIN builds'
Range(q) == {q[i] : i \in 1..Len(q)}
Count(effects, e) == Cardinality({i \in 1..Len(effects) : effects[i] = e})

\* C11: file events whose handler runs while the timer of the previous event
\* is pending form a burst. Every burst has exactly one rebuild: started, or
\* still waiting on the one pending timer, which is the timer of the last
\* event; a rebuild starts only when the debounce delay has passed since the
\* last event; a rebuild that succeeded broadcast exactly once, any other
\* not at all.
C11_Debounce ==
  /\ [](alive =>
          /\ DOMAIN timers \subseteq {buildTimeout}
          /\ Cardinality(DOMAIN builds) + Cardinality(DOMAIN timers) = bursts
          /\ \A h \in DOMAIN builds :
               Count(builds[h].effects, <<"notify">>)
                 = IF builds[h].status = "resolved" THEN 1 ELSE 0)
  /\ [][\A h \in 1..MaxInputs :
          Starting(h) => h = buildTimeout /\ timers[h] = DebounceTicks]_vars

\* C11 witness: a burst of at least two events has led to one rebuild, which
\* succeeded and broadcast.
C11_Witness ==
  /\ alive /\ events >= 2 /\ bursts = 1 /\ timers = EmptyMap
  /\ \E h \in DOMAIN builds : builds[h].status = "resolved"

\* C12 (as stated): at most one rebuild is in flight (started and neither
\* completed nor failed) at any time.
C12_OneBuildInFlight == Cardinality(InFlight) <= 1

\* C13: the step in which a rebuild succeeds empties the file cache, and
\* writes one reload message to every client in the list at that moment and to
\* no other connection; the clear comes before the first write.
C13_ClearThenNotify ==
  [][\A h \in 1..MaxInputs :
       Ending(h, "resolved") =>
         /\ fileCache' = <<>>
         /\ \A c \in Conns : sent'[c] = sent[c] + (IF c \in Range(clients) THEN 1 ELSE 0)
         /\ LET effects == builds'[h].effects
            IN /\ effects[1] = <<"clear">>
               /\ Count(effects, <<"clear">>) = 1
               /\ \A c \in Conns :
                    Count(effects, <<"write", c>>) = (IF c \in Range(clients) THEN 1 ELSE 0)]_vars

\* C13 witness: a rebuild succeeded after a file had been cached, with a
\* client connected, which received its message.
C13_Witness ==
  /\ alive /\ fileCache = <<>> /\ res # NoResponse
  /\ \E i \in 1..Len(res.cacheOps) : res.cacheOps[i] = "set"
  /\ \E h \in DOMAIN builds :
       /\ builds[h].status = "resolved"
       /\ \E c \in Range(builds[h].clients) : sent[c] = 1 /\ conn[c] = "open"

\* C14: the step in which a rebuild fails writes no reload message, leaves the
\* file cache and the client list as they were, and leaves the server
\* listening and watching.
C14_FailureIsolated ==
  [][\A h \in 1..MaxInputs :
       (Ending(h, "rejected") \/ (Starting(h) /\ builds'[h].status = "rejected")) =>
         /\ alive'
         /\ sent' = sent /\ fileCache' = fileCache /\ clients' = clients /\ conn' = conn
         /\ builds'[h].effects = <<>>]_vars

\* C14 witness: after a failed rebuild, with a file cached or a client
\* connected, a later file event has set the timer again.
C14_Witness ==
  /\ alive /\ (fileCache # <<>> \/ clients # <<>>)
  /\ \E h \in DOMAIN builds : builds[h].status = "rejected" /\ buildTimeout > h
  /\ buildTimeout \in DOMAIN timers

\* C15: the client list holds each subscribed, not yet closed connection
\* exactly once and nothing else; no reload message is written to a connection
\* whose close has been handled.
C15_LiveClients ==
  /\ [](alive =>
          /\ Range(clients) = {c \in Conns : conn[c] = "open"}
          /\ Len(clients) = Cardinality(Range(clients)))
  /\ [][\A c \in Conns : (alive' /\ conn[c] = "gone") => sent'[c] = sent[c]]_vars

\* C15 witness: a broadcast took place after a connection had subscribed and
\* closed.
C15_Witness ==
  /\ \E c \in Conns : conn[c] = "gone" /\ sent[c] = 0
  /\ \E h \in DOMAIN builds : builds[h].status = "resolved"

\* the step being taken handles a request for a file
Requested == alive' /\ requests' = requests + 1
\* the four security headers and nothing else
SecurityOnly ==
  [h \in {"X-Content-Type-Options", "X-Frame-Options", "X-XSS-Protection", "Referrer-Policy"} |->
     CASE h = "X-Content-Type-Options" -> "nosniff"
       [] h = "X-Frame-Options" -> "SAMEORIGIN"
       [] h = "X-XSS-Protection" -> "1; mode=block"
       [] OTHER -> "strict-origin-when-cross-origin"]

\* C16: a request is answered from a cache entry exactly when the entry exists,
\* the file exists and its modification time is not later than the recorded
\* one; an entry whose file is gone or has a later modification time is
\* removed, and the request then answers 404 (no file) or stores and serves
\* the content and modification time now on disk.
C16_CacheValidity ==
  [][(Requested /\ res'.req.filePath # Null) =>
       LET fp == res'.req.filePath
           old == Find(fileCache, fp)
           valid == \E i \in old : fp \in DOMAIN out /\ out[fp].mtimeMs <= fileCache[i].mtime
           hit == res'.cacheOps = <<"get">> /\ res'.status \in {200, 304}
       IN /\ hit <=> valid
          /\ (old # {} /\ ~valid) =>
               IF fp \in DOMAIN out
                 THEN /\ \E j \in Find(fileCache', fp) :
                           /\ fileCache'[j].content = out[fp].content
                           /\ fileCache'[j].mtime = out[fp].mtimeMs
                      /\ res'.status = 200 => res'.body[1] = out[fp].content
                 ELSE Find(fileCache', fp) = {} /\ res'.status = 404]_vars

\* C16 witness: a request found an entry older than its file, removed it and
\* served the file from disk.
C16_Witness ==
  /\ res # NoResponse /\ res.status = 200
  /\ res.cacheOps = <<"get", "delete", "set", "get">>

C18_Conditional ==
  [][(Requested /\ res'.req.filePath \in DOMAIN out /\ res'.req.inm # NoEtag) =>
       LET fp == res'.req.filePath
           inm == res'.req.inm
       IN /\ (\E j \in Find(fileCache', fp) : fileCache'[j].etag = inm) =>
               res'.status = 304 /\ res'.body = <<>> /\ res'.headers = SecurityOnly
          /\ inm # Etag(out[fp].content) =>
               /\ res'.status = 200
               /\ res'.body[1] = out[fp].content
               /\ res'.headers["ETag"] = Etag(out[fp].content)]_vars

\* C19: a request whose target, decoded once, contains '..', '//' or a
\* backslash, or cannot be decoded, is answered 403 without any file examined
\* and with the file cache as it was; every path examined or read for any other
\* request lies under the output root.
C19_PathSanitized ==
  [][Requested =>
       LET d == decodeURIComponent(res'.req.url)
           bad == \/ d = URIError
                  \/ includes(d, <<".", ".">>) \/ includes(d, <<"/", "/">>)
                  \/ includes(d, <<"\\">>)
       IN /\ bad => /\ res'.status = 403 /\ res'.fs = {} /\ res'.cacheOps = <<>>
                    /\ fileCache' = fileCache
          /\ res'.status # 403 =>
               /\ res'.fs # {}
               /\ \A p \in res'.fs : StartsWith(p, outputDir \o <<"/">>)]_vars

\* C19 witness: an escaped traversal was answered 403.
C19_Witness ==
  /\ res # NoResponse /\ res.status = 403
  /\ res.req.url = <<"/", "%2e", "%2e", "/", "a">>

\* C20: every response carries X-Content-Type-Options: nosniff,
\* X-Frame-Options: SAMEORIGIN, X-XSS-Protection: 1; mode=block and
\* Referrer-Policy: strict-origin-when-cross-origin.
C20_SecurityHeaders ==
  res # NoResponse =>
    \A h \in DOMAIN SecurityOnly :
      h \in DOMAIN res.headers /\ res.headers[h] = SecurityOnly[h]

\* C20 witness: a 304, the response that carries no other header.
C20_Witness == res # NoResponse /\ res.status = 304

(* ------------- claims: templates, cache entries, listings ------------- *)
\* the post a pass parsed from pages/{s}.md
Parsed(s) == CHOOSE p \in Range(posts) : p.slug = s
\* no template of the three buildPost tries is loaded
NoTemplate(p) == tpl[p.template] = 0 /\ tpl["post"] = 0 /\ tpl["default"] = 0

\* C21: a post page written by a pass is rendered with the template named in
\* the post's front-matter, else with 'post', else with 'default'; a post for
\* which none of the three is loaded is not written; the build loop still
\* handles every other post, and a pass that completes has written the tag
\* pages, the pagination pages and the feeds that can be rendered, and has
\* persisted the cache.
C21_TemplateSkip ==
  /\ \A s \in DOMAIN decided :
       LET p == Parsed(s)
           want == IF tpl[p.template] # 0 THEN p.template
                   ELSE IF tpl["post"] # 0 THEN "post" ELSE "default"
       IN IF NoTemplate(p) THEN PostFile(s) \notin written
          ELSE decided[s] => /\ PostFile(s) \in written
                             /\ out[PostFile(s)].tpl = <<want>>
  /\ pc \in {"index", "tags", "page", "feeds", "static", "save", "done"} =>
       \A i \in 1..Len(posts) : ~posts[i].draft => posts[i].slug \in DOMAIN decided
  /\ pc = "done" =>
       /\ {"rss.xml", "sitemap.xml"} \subseteq written
       /\ (tpl["tag"] # 0 \/ tpl["default"] # 0) =>
            \A i \in 1..Len(posts) : ~posts[i].draft =>
               \A t \in posts[i].tags : TagFile(slugify(t)) \in written
       /\ ((tpl["list"] # 0 \/ tpl["default"] # 0) /\ \E i \in 1..Len(posts) : Listed(posts[i])) =>
            PageFile(1) \in written
       /\ cacheFile = [exists |-> TRUE, map |-> newCache]

\* C21 witness: a pass completed in which one post was skipped for lack of a
\* template while another post, a tag page, a pagination page and the feeds
\* were written and the cache was persisted.
C21_Witness ==
  /\ pc = "done" /\ cacheFile.exists
  /\ \E s \in DOMAIN decided : NoTemplate(Parsed(s)) /\ PostFile(s) \notin DOMAIN out
  /\ \E s \in DOMAIN decided : ~NoTemplate(Parsed(s)) /\ PostFile(s) \in written
  /\ TagFile("news") \in written /\ PageFile(1) \in written /\ "rss.xml" \in written

\* C22 (as stated): every entry of the cache a completed pass has persisted
\* maps a source to the hash of the content its page in the output was written
\* from: the page exists and shows the text that has this hash.
C22_CacheEntries ==
  pc = "done" =>
     \A s \in DOMAIN cacheFile.map :
        /\ PostFile(s) \in DOMAIN out
        /\ out[PostFile(s)].title = <<ToString(cacheFile.map[s][2])>>

\* the current non-draft posts carrying tag t
Carrying(t) == {s \in Published : t \in pages[s].tags}

\* C23 (as stated): after a completed pass, every page of the output that
\* shows the tags listing (a page rendered with the tag template from a source
\* page) lists exactly the tags carried by a current non-draft post, each with
\* the number of current non-draft posts carrying it.
C23_TagCounts ==
  pc = "done" =>
     \A s \in SlugSet :
        (PostFile(s) \in DOMAIN out /\ out[PostFile(s)].tpl = <<"tag">>) =>
           LET shown == out[PostFile(s)].tagsList
           IN /\ \A t \in Tags : Carrying(t) # {} =>
                    \E i \in 1..Len(shown) :
                       shown[i][2] = t /\ shown[i][3] = Cardinality(Carrying(t))
              /\ \A i \in 1..Len(shown) :
                    shown[i][3] = Cardinality(Carrying(shown[i][2]))

\* C24 (as stated): when the sources hold no index.md, a completed pass that
\* produced page/1.html leaves index.html in the output with the same content.
C24_RootIsPageOne ==
  (pc = "done" /\ ~pages["index"].exists /\ PageFile(1) \in written) =>
     /\ IndexFile \in DOMAIN out
     /\ out[IndexFile] = out[PageFile(1)]

(* ------------------------- claims: paginate --------------------------- *)
\* C25 (as stated): the loop of paginate counts i up by one to totalPages, so
\* the call, and with it the pass, terminates: the bound of the loop is never
\* infinite, whatever postsPerPage the configuration holds.
C25_Terminates == pgCall.pc = "loop" => pgCall.totalPages.kind # "Infinity"

\* the pages of the call as the operator paginate writes them
Finite(pgs) == [j \in 1..Len(pgs) |-> [pgs[j] EXCEPT !.totalPages = @.n]]

\* C27: called with n items and a page size p >= 1, paginate returns ceil(n/p)
\* pages numbered 1..ceil(n/p); their items, concatenated in page order, are
\* the input; every page but the last holds p items and the last holds 1..p;
\* page 1 has no previous link, the last page no next link, every other link
\* targets the adjacent page (the previous link of page 2 is the site root,
\* where page 1 is materialized).
C27_Pagination ==
  (pgCall.pc = "returned" /\ pgCall.perPage.type = "number" /\ pgCall.perPage.v >= 1) =>
     LET n == Len(pgCall.items)
         p == pgCall.perPage.v
         pgs == pgCall.pages
         last == Len(pgs)
     IN /\ last * p >= n /\ (last - 1) * p < n
        /\ \A j \in 1..last :
             /\ pgs[j].currentPage = j
             /\ pgs[j].totalPages = Num(last)
             /\ j < last => Len(pgs[j].items) = p
             /\ Len(pgs[j].items) \in 1..p
             /\ PaginationNav(pgs[j]).prev =
                  (IF j = 1 THEN NoLink ELSE IF j = 2 THEN <<"/">> ELSE <<PageFile(j - 1)>>)
             /\ PaginationNav(pgs[j]).next =
                  (IF j = last THEN NoLink ELSE <<PageFile(j + 1)>>)
             /\ pgs[j].prevPage = (IF j = 1 THEN 0 ELSE j - 1)
             /\ pgs[j].nextPage = (IF j = last THEN 0 ELSE j + 1)
        /\ Concat([j \in 1..last |-> pgs[j].items]) = pgCall.items
        /\ Finite(pgs) = paginate(pgCall.items, p)

\* C27 witness: a call returned three pages, the last one not full.
C27_Witness ==
  /\ pgCall.pc = "returned" /\ pgCall.perPage.type = "number" /\ pgCall.perPage.v >= 2
  /\ Len(pgCall.pages) = 3
  /\ Len(pgCall.pages[3].items) < pgCall.perPage.v

(* ----------------------- claims: processImages ------------------------ *)
\* the optimizations handed to sharp and not yet settled
Flying == {f \in 1..imCall.n : imCall.state[f] = "flight"}

\* C26: at no time are more than 5 optimizations in flight; an image of a
\* later batch has started only when every image of every earlier batch has
\* finished; the image cache is written only when every image has finished
\* and the other files are copied, and it then holds every image.
C26_Batched ==
  imCall.pc # "none" =>
     /\ Cardinality(Flying) <= 5
     /\ \A f, g \in 1..imCall.n :
          (BatchOf(f) < BatchOf(g) /\ imCall.state[g] # "waiting") =>
             imCall.state[f] \in {"done", "skipped"}
     /\ imCall.saved =>
          /\ \A f \in 1..imCall.n : imCall.state[f] \in {"done", "skipped"}
          /\ imCall.copied
          /\ imCall.newCache = 1..imCall.n

\* C26 witness: the second batch is in flight after a first batch of five
\* optimizations has finished.
C26_Witness ==
  /\ imCall.pc = "await" /\ imCall.i = 5
  /\ Flying # {}
  /\ \A f \in 1..5 : imCall.state[f] = "done"

(* ---------------------- claims: findRelatedPosts ---------------------- *)
\* the number of tags p shares with the current post of the call
Shared(p) == Cardinality(p.tags \cap relCall.currentPost.tags)
\* the position of p in the input
Position(p) == CHOOSE i \in 1..Len(relCall.allPosts) : relCall.allPosts[i].slug = p.slug
\* the posts of the input that may be related to the current post
Eligible ==
  {p \in Range(relCall.allPosts) :
     /\ p.slug # relCall.currentPost.slug /\ ~p.draft
     /\ p.slug \notin {"index", "about", "tags/index"}
     /\ Shared(p) > 0}

C29_UniqueIds ==
  \A i, j \in 1..Len(hdCall.ids) : hdCall.ids[i] = hdCall.ids[j] => i = j

(* ------------------ claims: incremental and full passes --------------- *)
\* the output tree a full pass over the current sources leaves, the posts
\* parsed with the clock at `now`: the steps of build() in order, from an
\* empty directory
FullBuild(now) ==
  LET files == SelectSeq(Slugs, LAMBDA s : pages[s].exists)
      all == [i \in 1..Len(files) |-> parseMarkdownFile(files[i], now)]
      html(p) == buildPost(p, templates, all)
      live == SelectSeq(all, LAMBDA p : ~p.draft /\ html(p) # NoHtml)
      root == SelectSeq(all, LAMBDA p : p.slug = "index" /\ html(p) # NoHtml)
      t1 == WriteAll(EmptyMap,
              [i \in 1..Len(live) |-> <<PostFile(live[i].slug), html(live[i])>>]
              \o [i \in 1..Len(root) |-> <<IndexFile, html(root[i])>>]
              \o buildTagPages(all, templates))
      t2 == WriteAll(t1, buildPaginationPages(all, templates, t1))
  IN WriteAll(t2,
       << <<"rss.xml", generateRSS(all, now)>>, <<"sitemap.xml", generateSitemap(all)>> >>
       \o (IF staticFiles # {} THEN copyDir(staticFiles) ELSE <<>>)
       \o (IF templates["404"] # 0 THEN << <<"404.html", [static |-> "templates/404.html"]>> >>
                               ELSE <<>>))

\* a generated file without the fields that carry the time of the build: the
\* feed's lastBuildDate and every date, which is the time of the build for a
\* post without a date
NoStamps(c) ==
  IF "static" \in DOMAIN c THEN c
  ELSE IF "items" \in DOMAIN c
    THEN [items |-> [i \in 1..Len(c.items) |-> <<c.items[i][1], c.items[i][2]>>]]
  ELSE IF "urls" \in DOMAIN c
    THEN [urls |-> [i \in 1..Len(c.urls) |-> <<c.urls[i][1]>>]]
  ELSE [c EXCEPT !.date = <<>>, !.dateISO = <<>>,
                 !.posts = [i \in 1..Len(c.posts) |-> <<c.posts[i][1]>> \o
                              (IF Len(c.posts[i]) > 1 THEN <<c.posts[i][2]>> ELSE <<>>)]]

\* C30 (as stated): when one source has been edited after a completed full
\* pass and an incremental pass completes, the output tree holds the files a
\* full build of the sources would produce, with the same content but for the
\* build-time fields.
C30_IncrementalIsFull ==
  (pc = "done" /\ incremental /\ prev.status = "done" /\ ~prev.incremental
     /\ Cardinality(Changed) = 1) =>
     LET full == FullBuild(clock)
     IN /\ DOMAIN out = DOMAIN full
        /\ \A f \in DOMAIN out : NoStamps(out[f]) = NoStamps(full[f])

(* -------------------- claims: the theme in the dev loop --------------- *)
\* C31 (as stated): when a rebuild of the dev loop completes and no file of
\* pages/ has changed since the last completed pass (the rebuild answers a
\* change to a template), the page of every listed non-draft post is in the
\* output and was rendered from the current text of its template.
C31_CurrentTemplate ==
  (pc = "done" /\ origin = "devRebuild" /\ prev.status = "done" /\ pages = builtSrc) =>
     \A i \in 1..Len(posts) :
        Listed(posts[i]) =>
           /\ PostFile(posts[i].slug) \in DOMAIN out
           /\ out[PostFile(posts[i].slug)].text = <<templates[PostTemplate(posts[i], templates)]>>

(* ---------------- claims: the source read twice by a pass ------------- *)
\* C32 (as stated): when a pass completes, for every post whose page the pass
\* wrote, the hash persisted for its source is the hash of the text the page
\* was rendered from: the title and the tags the page shows are those of the
\* hashed text, and the hashed text is not a draft.
C32_HashOfRendered ==
  pc = "done" =>
     \A s \in DOMAIN decided :
        (s # "index" /\ PostFile(s) \in written) =>
           LET hashed == cacheFile.map[s]
               tagSeq == TagSeq(hashed[4])
           IN /\ out[PostFile(s)].title = <<ToString(hashed[2])>>
              /\ out[PostFile(s)].tags = [i \in 1..Len(tagSeq) |-> <<slugify(tagSeq[i]), tagSeq[i]>>]
              /\ ~hashed[6]

(* ---------------------- claims: the dev command ----------------------- *)
\* C33 (as stated): when the dev command has finished starting (the server
\* listens), every .webp that image processing produced or found for an
\* optimizable image of static/images is in the output directory.
C33_WebpPresent ==
  (alive /\ imCall.pc = "listening") => imCall.webp \subseteq DOMAIN out

\* C36 (as stated): once image processing and a build pass after it have
\* completed, the image hash cache file is not in the output directory.
C36_CacheNotPublished ==
  (imCall.pc \in {"processed", "listening"} /\ prev.status = "done") =>
     ImageCacheFile \notin DOMAIN out

(* ------------------ claims: requests and the file system -------------- *)
\* C34 (as stated): whatever the requested path is in the output tree and
\* whatever another process does to it while the handler runs, the request
\* ends with a response of status 200, 304, 403 or 404.
C34_AlwaysAnswered ==
  res # NoResponse => res.status \in {200, 304, 403, 404}

(* ----------------------- claims: the watch loop ----------------------- *)
\* the rebuild started for file event g, or for a later one, has completed;
\* when it succeeded, every client connected at that moment was written to
Rebuilt(h) ==
  \E g \in h..MaxInputs :
     /\ g \in DOMAIN builds
     /\ builds[g].status \in {"resolved", "rejected"}
     /\ builds[g].status = "resolved" =>
          \A i \in 1..Len(builds[g].clients) :
             Writes(builds[g].effects, builds[g].clients[i]) >= 1

Tagged(t) == ByDateDesc(SelectSeq(posts, LAMBDA p : ~p.draft /\ t \in p.tags))

\* C37 (as stated): when a pass completes, every tag carried by a non-draft
\* post has its page tags/{slugify(tag)}.html, titled with the tag and listing
\* exactly the non-draft posts that carry it; two tags carried by non-draft
\* posts have different pages, and no tag page is the page of a post.
C37_TagPages ==
  pc = "done" =>
     /\ \A t \in Tags :
          Tagged(t) # <<>> =>
             /\ TagFile(slugify(t)) \in DOMAIN out
             /\ out[TagFile(slugify(t))].title = <<"Tag: ", t>>
             /\ out[TagFile(slugify(t))].posts = Items(Tagged(t))
     /\ \A t, u \in Tags :
          (t # u /\ Tagged(t) # <<>> /\ Tagged(u) # <<>>) =>
             TagFile(slugify(t)) # TagFile(slugify(u))
     /\ \A t \in Tags : TagFile(slugify(t)) \notin PostFiles

====
